---- MODULE Spec2Model ----
(***************************************************************************)
(* A model of the editing core of the hecto text editor: Line (grapheme    *)
(* clusters over a string), AnnotatedString (byte-range annotations),      *)
(* Buffer (the document), View (cursor, viewport, search mode) and the     *)
(* command dispatch of Editor.                                             *)
(*                                                                         *)
(* Strings are sequences of code points.  The alphabet has ordinary        *)
(* one-column characters, one double-width character ("W") and one         *)
(* combining mark ("m") that extends the cluster before it.  Byte indices  *)
(* are UTF-8 offsets, computed from the byte length of each code point.    *)
(* usize arithmetic is modelled on the naturals: every value of the model  *)
(* stays far below usize::MAX, so saturating_add never saturates, and      *)
(* saturating_sub is SatSub.  debug_assert! is a no-op (release build).    *)
(***************************************************************************)
EXTENDS Integers, Sequences, FiniteSets, TLC

VARIABLES
    lines,          \* Buffer.lines: sequence of strings (Line.string)
    dirty,          \* Buffer.dirty
    text_location,  \* View.text_location
    scroll_offset,  \* View.scroll_offset
    size,           \* View.size
    search_info,    \* View.search_info: None or Some(SearchInfo)
    prompt_type,    \* Editor.prompt_type
    value,          \* CommandBar.value (Line.string)
    last,           \* the last command that was not ignored, the search it issued
                    \* and the match that search found
    harness         \* state of the function-level specifications

vars == <<lines, dirty, text_location, scroll_offset, size, search_info,
          prompt_type, value, last, harness>>

editorVars == <<lines, dirty, text_location, scroll_offset, size, search_info,
                prompt_type, value, last>>

----------------------------------------------------------------------------
(* Bounds of the model *)

MaxLines == 2
MaxLineLen == 2
MaxQueryLen == 2
MaxViewSide == 2
\* AnnotatedString::replace called on its own
MaxStrLen == 3
MaxAnnotations == 2
MaxNewLen == 2
\* Buffer::search_forward called on its own
MaxScanLineLen == 5
MaxScanQueryLen == 3
\* search_next repeated on a document
MaxNextLines == 3
MaxVisits == 4
MaxSplitLen == 3
MaxCalls == 2
MaxNameLen == 1
MaxShownLen == 3
MaxShownQueryLen == 2
MaxMoveSide == 2
MaxAskedLen == 1
\* the commands of the editor, prompts and Quit included
MaxTypedLines == 1
MaxTypedLen == 1
\* searches whose match is drawn
MaxDrawnLen == 3
MaxDrawnQueryLen == 2
\* search_next, then search_prev
MaxInverseLines == 2
MaxInverseLen == 3

\* Editor: QUIT_TIMES
QUIT_TIMES == 3

----------------------------------------------------------------------------
(* Option, usize *)

None == <<>>
Some(x) == <<x>>
IsSome(o) == o # <<>>
Unwrap(o) == o[1]

SatSub(a, b) == IF a > b THEN a - b ELSE 0
Min(a, b) == IF a < b THEN a ELSE b
Max(a, b) == IF a > b THEN a ELSE b
DivCeil(a, b) == (a + b - 1) \div b

RECURSIVE Concat(_)
Concat(ss) == IF ss = <<>> THEN <<>> ELSE Head(ss) \o Concat(Tail(ss))

Location(l, g) == [line_index |-> l, grapheme_index |-> g]
Position(r, c) == [row |-> r, col |-> c]
Size(h, w) == [height |-> h, width |-> w]

----------------------------------------------------------------------------
(* Code points *)

\* "a" and the other letters: one byte, one column; "W": a wide character
\* of three bytes; "m": a combining mark of two bytes; "zw": the zero-width
\* space, three bytes, a cluster of its own; "...": the ellipsis, three bytes
IsExtend(c) == c = "m"
ByteLen(c) == CASE c \in {"W", "zw", "..."} -> 3 [] c = "m" -> 2 [] OTHER -> 1
CharWidth(c) == CASE c = "W" -> 2 [] c \in {"m", "zw"} -> 0 [] OTHER -> 1

RECURSIVE StrLen(_)
StrLen(s) == IF s = <<>> THEN 0 ELSE ByteLen(Head(s)) + StrLen(Tail(s))

RECURSIVE StrWidth(_)
StrWidth(s) == IF s = <<>> THEN 0 ELSE CharWidth(Head(s)) + StrWidth(Tail(s))

\* byte offset of the code point after the first k code points of s
ByteOf(s, k) == StrLen(SubSeq(s, 1, k))

\* str.get(start..end): the code points between two byte offsets, None when
\* an offset is past the end, not a char boundary, or start > end
StrGet(s, start, end) ==
    LET B == {k \in 0..Len(s) : ByteOf(s, k) = start}
        E == {k \in 0..Len(s) : ByteOf(s, k) = end}
    IN IF start > end \/ B = {} \/ E = {} THEN None
       ELSE LET b == CHOOSE k \in B : TRUE
                e == CHOOSE k \in E : TRUE
            IN Some(SubSeq(s, b + 1, e))

\* str.match_indices(q): byte offsets of the disjoint occurrences of q in s,
\* leftmost first, the scan resuming right after each occurrence
RECURSIVE MatchIndicesFrom(_, _, _)
MatchIndicesFrom(s, q, k) ==
    IF k + Len(q) > Len(s) THEN <<>>
    ELSE IF SubSeq(s, k + 1, k + Len(q)) = q
         THEN <<ByteOf(s, k)>> \o MatchIndicesFrom(s, q, k + Max(Len(q), 1))
         ELSE MatchIndicesFrom(s, q, k + 1)

match_indices(s, q) == MatchIndicesFrom(s, q, 0)

----------------------------------------------------------------------------
(* Line *)

get_replacement_character(g) ==
    LET width == StrWidth(g)
    IN IF width = 0 THEN Some(".") ELSE None

\* the clusters of s from code point i on, the first one starting at byte
RECURSIVE FragmentsFrom(_, _, _)
FragmentsFrom(s, i, byte) ==
    IF i > Len(s) THEN <<>>
    ELSE LET e == CHOOSE e \in (i + 1)..(Len(s) + 1) :
                     /\ e = Len(s) + 1 \/ ~IsExtend(s[e])
                     /\ \A k \in (i + 1)..(e - 1) : IsExtend(s[k])
             g == SubSeq(s, i, e - 1)
             replacement == get_replacement_character(g)
         IN <<[grapheme |-> g,
               rendered_width |-> IF IsSome(replacement) THEN 1
                                  ELSE IF StrWidth(g) <= 1 THEN 1 ELSE 2,
               replacement |-> replacement,
               start |-> byte]>>
            \o FragmentsFrom(s, e, byte + StrLen(g))

str_to_fragments(s) == FragmentsFrom(s, 1, 0)

grapheme_count(s) == Len(str_to_fragments(s))

RECURSIVE SumWidths(_, _)
SumWidths(fs, n) ==
    IF n = 0 \/ fs = <<>> THEN 0
    ELSE Head(fs).rendered_width + SumWidths(Tail(fs), n - 1)

width_until(s, grapheme_index) == SumWidths(str_to_fragments(s), grapheme_index)

width(s) == width_until(s, grapheme_count(s))

\* String::insert at a byte offset that is a fragment start
InsertAtByte(s, byte, c) ==
    LET k == CHOOSE k \in 0..Len(s) : ByteOf(s, k) = byte
    IN SubSeq(s, 1, k) \o <<c>> \o SubSeq(s, k + 1, Len(s))

insert_char(s, character, at) ==
    LET fs == str_to_fragments(s)
    IN IF at < Len(fs) THEN InsertAtByte(s, fs[at + 1].start, character)
       ELSE Append(s, character)

append_char(s, character) == insert_char(s, character, grapheme_count(s))

line_delete(s, at) ==
    LET fs == str_to_fragments(s)
    IN IF at < Len(fs)
       THEN LET start == fs[at + 1].start
                end == start + StrLen(fs[at + 1].grapheme)
                b == CHOOSE k \in 0..Len(s) : ByteOf(s, k) = start
                e == CHOOSE k \in 0..Len(s) : ByteOf(s, k) = end
            IN SubSeq(s, 1, b) \o SubSeq(s, e + 1, Len(s))
       ELSE s

delete_last(s) == line_delete(s, SatSub(grapheme_count(s), 1))

\* the other line put in front of the line
append_front(s, other) == other \o s

append(s, other) == s \o other

\* split that returns the rest of the line and truncates nothing
split_copy(s, at) ==
    LET fs == str_to_fragments(s)
    IN IF at < Len(fs)
       THEN LET k == CHOOSE k \in 0..Len(s) : ByteOf(s, k) = fs[at + 1].start
            IN <<s, SubSeq(s, k + 1, Len(s))>>
       ELSE <<s, <<>>>>

\* Line::split: <<what stays in the line, the line returned>>
split(s, at) ==
    LET fs == str_to_fragments(s)
    IN IF at < Len(fs)
       THEN LET k == CHOOSE k \in 0..Len(s) : ByteOf(s, k) = fs[at + 1].start
            IN <<SubSeq(s, 1, k), SubSeq(s, k + 1, Len(s))>>
       ELSE <<s, <<>>>>

byte_idx_to_grapheme_idx(s, byte_idx) ==
    LET fs == str_to_fragments(s)
        P == {i \in 1..Len(fs) : fs[i].start >= byte_idx}
    IN IF byte_idx > StrLen(s) \/ P = {} THEN None
       ELSE Some((CHOOSE i \in P : \A j \in P : i <= j) - 1)

grapheme_idx_to_byte_idx(s, grapheme_idx) ==
    LET fs == str_to_fragments(s)
    IN IF grapheme_idx = 0 \/ Len(fs) = 0 THEN 0
       ELSE IF grapheme_idx < Len(fs) THEN fs[grapheme_idx + 1].start
       ELSE 0

\* every potential match that has a grapheme index is taken for a match
AlignedMatchUncompared(fs, n, start, g, query) ==
    IF /\ IsSome(g)
       /\ Unwrap(g) + n <= Len(fs)
    THEN <<<<start, Unwrap(g)>>>>
    ELSE <<>>

\* the closure of match_grapheme_clusters for one match: the match starting
\* at byte start, at grapheme g of the fragments fs, if the n fragments
\* from g on spell the query
AlignedMatch(fs, n, start, g, query) ==
    IF /\ IsSome(g)
       /\ Unwrap(g) + n <= Len(fs)
       /\ Concat([i \in 1..n |-> fs[Unwrap(g) + i].grapheme]) = query
    THEN <<<<start, Unwrap(g)>>>>
    ELSE <<>>

\* the <<byte index, grapheme index>> of the matches that are cluster-aligned
RECURSIVE match_grapheme_clusters(_, _, _)
match_grapheme_clusters(s, matches, query) ==
    IF matches = <<>> THEN <<>>
    ELSE AlignedMatch(str_to_fragments(s), grapheme_count(query), Head(matches),
                      byte_idx_to_grapheme_idx(s, Head(matches)), query)
         \o match_grapheme_clusters(s, Tail(matches), query)

\* the matches of the query in the substring, as byte indices of the line
PotentialMatches(substr, query, start) ==
    IF ~IsSome(substr) THEN <<>>
    ELSE [i \in 1..Len(match_indices(Unwrap(substr), query)) |->
             match_indices(Unwrap(substr), query)[i] + start]

find_all(s, query, range_start, range_end) ==
    match_grapheme_clusters(
        s,
        PotentialMatches(StrGet(s, range_start, Min(range_end, StrLen(s))),
                         query, range_start),
        query)

\* .first() / .last() of the matches, mapped to the grapheme index
FirstGrapheme(found) == IF found = <<>> THEN None ELSE Some(found[1][2])
LastGrapheme(found) == IF found = <<>> THEN None ELSE Some(found[Len(found)][2])

line_search_forward(s, query, from_grapheme_idx) ==
    IF from_grapheme_idx = grapheme_count(s) THEN None
    ELSE FirstGrapheme(find_all(s, query,
                                grapheme_idx_to_byte_idx(s, from_grapheme_idx),
                                StrLen(s)))

line_search_backward(s, query, from_grapheme_idx) ==
    IF from_grapheme_idx = 0 THEN None
    ELSE LastGrapheme(find_all(s, query, 0,
                               IF from_grapheme_idx = grapheme_count(s) THEN StrLen(s)
                               ELSE grapheme_idx_to_byte_idx(s, from_grapheme_idx)))

----------------------------------------------------------------------------
(* AnnotatedString: a record [string, annotations]; the string is a        *)
(* sequence of code points, an annotation a byte range with a type.        *)

AnnotationTypes == {"Match", "SelectedMatch"}

Annotation(annotation_type, start_byte_idx, end_byte_idx) ==
    [annotation_type |-> annotation_type,
     start_byte_idx |-> start_byte_idx,
     end_byte_idx |-> end_byte_idx]

add_annotation(a, annotation_type, start_byte_idx, end_byte_idx) ==
    [a EXCEPT !.annotations =
        Append(@, Annotation(annotation_type, start_byte_idx, end_byte_idx))]

\* String::replace_range(start..end, new_string)
\* the number of code points before the byte offset, a char boundary
CharsBefore(string, byte) == CHOOSE k \in 0..Len(string) : ByteOf(string, k) = byte

replace_range(string, start, end, new_string) ==
    SubSeq(string, 1, CharsBefore(string, start))
    \o new_string
    \o SubSeq(string, CharsBefore(string, end) + 1, Len(string))

\* usize::abs_diff
AbsDiff(a, b) == IF a > b THEN a - b ELSE b - a

\* the new value of an index of an annotation: the same computation for
\* start_byte_idx and for end_byte_idx
Reindex(idx, start_byte_idx, end_byte_idx, len_difference, shortened) ==
    IF idx >= end_byte_idx
    THEN IF shortened THEN SatSub(idx, len_difference) ELSE idx + len_difference
    ELSE IF idx >= start_byte_idx
    THEN IF shortened THEN Max(start_byte_idx, SatSub(idx, len_difference))
         ELSE Min(end_byte_idx, idx + len_difference)
    ELSE idx

\* the closure of retain, every annotation kept
RetainedAll(annotation, len) == TRUE

\* the closure of retain
Retained(annotation, len) ==
    /\ annotation.start_byte_idx < annotation.end_byte_idx
    /\ annotation.start_byte_idx < len

\* the two passes over the annotations, the string being replaced already
Readjust(annotations, len, start_byte_idx, end_byte_idx, len_difference, shortened) ==
    LET reindexed ==
            [i \in 1..Len(annotations) |->
                Annotation(annotations[i].annotation_type,
                           Reindex(annotations[i].start_byte_idx, start_byte_idx,
                                   end_byte_idx, len_difference, shortened),
                           Reindex(annotations[i].end_byte_idx, start_byte_idx,
                                   end_byte_idx, len_difference, shortened))]
        Keep(annotation) == Retained(annotation, len)
    IN SelectSeq(reindexed, Keep)

\* replace, end_byte_idx clamped to the length of the string already
ReplaceClamped(a, start_byte_idx, end_byte_idx, new_string) ==
    IF start_byte_idx > end_byte_idx THEN a
    ELSE IF AbsDiff(StrLen(new_string), SatSub(end_byte_idx, start_byte_idx)) = 0
    THEN [a EXCEPT !.string = replace_range(a.string, start_byte_idx, end_byte_idx,
                                            new_string)]
    ELSE [string |-> replace_range(a.string, start_byte_idx, end_byte_idx, new_string),
          annotations |->
              Readjust(a.annotations,
                       StrLen(replace_range(a.string, start_byte_idx, end_byte_idx,
                                            new_string)),
                       start_byte_idx, end_byte_idx,
                       AbsDiff(StrLen(new_string), SatSub(end_byte_idx, start_byte_idx)),
                       StrLen(new_string) < SatSub(end_byte_idx, start_byte_idx))]

replace(a, start_byte_idx, end_byte_idx, new_string) ==
    ReplaceClamped(a, start_byte_idx, Min(end_byte_idx, StrLen(a.string)), new_string)

\* truncate_left_until and truncate_right_from: wrappers over replace
truncate_left_until(a, until) == replace(a, 0, until, <<>>)
truncate_right_from(a, from) == replace(a, from, StrLen(a.string), <<>>)

(* Line::get_annotated_visible_substr, and the earlier get_visible_graphemes *)

Ellipsis == "..."

\* both annotations added for the selected match
TagBoth(result, match, query_len, selected_match) ==
    IF IsSome(selected_match) /\ match[2] = Unwrap(selected_match)
    THEN add_annotation(
             add_annotation(result, "SelectedMatch", match[1], match[1] + query_len),
             "Match", match[1], match[1] + query_len)
    ELSE add_annotation(result, "Match", match[1], match[1] + query_len)

\* the closure of for_each: the annotation of one match <<byte, grapheme>>
TagMatch(result, match, query_len, selected_match) ==
    IF IsSome(selected_match) /\ match[2] = Unwrap(selected_match)
    THEN add_annotation(result, "SelectedMatch", match[1], match[1] + query_len)
    ELSE add_annotation(result, "Match", match[1], match[1] + query_len)

RECURSIVE TagMatches(_, _, _, _)
TagMatches(result, found, query_len, selected_match) ==
    IF found = <<>> THEN result
    ELSE TagMatches(TagMatch(result, Head(found), query_len, selected_match),
                    Tail(found), query_len, selected_match)

\* AnnotatedString::from(&self.string) and the annotations of the matches
Tagged(s, query, selected_match) ==
    IF IsSome(query) /\ Unwrap(query) # <<>>
    THEN TagMatches([string |-> s, annotations |-> <<>>],
                    find_all(s, Unwrap(query), 0, StrLen(s)),
                    StrLen(Unwrap(query)), selected_match)
    ELSE [string |-> s, annotations |-> <<>>]

\* the byte after the fragment
FragmentEndByte(fragment) == fragment.start + StrLen(fragment.grapheme)

\* the ellipsis put in the place of the fragment alone
SpliceRightEdgeOfFragment(result, fragment, len) ==
    replace(result, fragment.start, FragmentEndByte(fragment), <<Ellipsis>>)

\* a fragment across the right edge: the ellipsis replaces the rest of the line
SpliceRightEdge(result, fragment, len) ==
    replace(result, fragment.start, len, <<Ellipsis>>)

\* the last step of the loop body: a fully visible fragment is replaced by
\* its replacement character
SpliceVisible(result, fragment, fragment_start, fragment_end, range_start, range_end) ==
    IF /\ fragment_start >= range_start
       /\ fragment_end <= range_end
       /\ IsSome(fragment.replacement)
    THEN replace(result, fragment.start, FragmentEndByte(fragment),
                 <<Unwrap(fragment.replacement)>>)
    ELSE result

\* the loop over the fragments in reverse, fragment i next, fragment_end the
\* column at which it ends, len the byte length of the line
RECURSIVE SpliceFrom(_, _, _, _, _, _, _)
SpliceFrom(fs, i, fragment_end, result, range_start, range_end, len) ==
    IF i = 0 THEN result
    ELSE IF SatSub(fragment_end, fs[i].rendered_width) > range_end
    THEN SpliceFrom(fs, i - 1, SatSub(fragment_end, fs[i].rendered_width), result,
                    range_start, range_end, len)
    ELSE IF SatSub(fragment_end, fs[i].rendered_width) < range_end
            /\ fragment_end > range_end
    THEN SpliceFrom(fs, i - 1, SatSub(fragment_end, fs[i].rendered_width),
                    SpliceRightEdge(result, fs[i], len),
                    range_start, range_end, len)
    ELSE IF SatSub(fragment_end, fs[i].rendered_width) = range_end
    THEN SpliceFrom(fs, i - 1, SatSub(fragment_end, fs[i].rendered_width),
                    truncate_right_from(result, fs[i].start),
                    range_start, range_end, len)
    ELSE IF fragment_end <= range_start
    THEN truncate_left_until(result, FragmentEndByte(fs[i]))
    ELSE IF SatSub(fragment_end, fs[i].rendered_width) < range_start
            /\ fragment_end > range_start
    THEN replace(result, 0, FragmentEndByte(fs[i]), <<Ellipsis>>)
    ELSE SpliceFrom(fs, i - 1, SatSub(fragment_end, fs[i].rendered_width),
                    SpliceVisible(result, fs[i],
                                  SatSub(fragment_end, fs[i].rendered_width),
                                  fragment_end, range_start, range_end),
                    range_start, range_end, len)

get_annotated_visible_substr(s, range_start, range_end, query, selected_match) ==
    IF range_start >= range_end THEN [string |-> <<>>, annotations |-> <<>>]
    ELSE SpliceFrom(str_to_fragments(s), grapheme_count(s), width(s),
                    Tagged(s, query, selected_match), range_start, range_end,
                    StrLen(s))

\* what get_visible_graphemes pushes for the fragment at columns
\* current_pos .. fragment_end
Pushed(fragment, current_pos, fragment_end, range_start, range_end) ==
    IF fragment_end > range_start
    THEN IF fragment_end > range_end \/ current_pos < range_start
         THEN <<Ellipsis>>
         ELSE IF IsSome(fragment.replacement) THEN <<Unwrap(fragment.replacement)>>
         ELSE fragment.grapheme
    ELSE <<>>

\* the loop of get_visible_graphemes, fragment i next, at column current_pos
RECURSIVE VisibleFrom(_, _, _, _, _)
VisibleFrom(fs, i, current_pos, range_start, range_end) ==
    IF i > Len(fs) \/ current_pos >= range_end THEN <<>>
    ELSE Pushed(fs[i], current_pos, fs[i].rendered_width + current_pos,
                range_start, range_end)
         \o VisibleFrom(fs, i + 1, fs[i].rendered_width + current_pos,
                        range_start, range_end)

get_visible_graphemes(s, range_start, range_end) ==
    IF range_start >= range_end THEN <<>>
    ELSE VisibleFrom(str_to_fragments(s), 1, 0, range_start, range_end)

(* AnnotatedStringIterator: a record [annotated_string, current_idx];     *)
(* next returns <<the iterator after the call, the Option returned>>. The  *)
(* strings iterated are strings of one-byte characters.                    *)

\* IntoIterator for &AnnotatedString
into_iter(a) == [annotated_string |-> a, current_idx |-> 0]

AnnotatedStringPart(string, annotation_type) ==
    [string |-> string, annotation_type |-> annotation_type]

\* .filter(..).last(): the last annotation that contains idx
LastContaining(annotations, idx) ==
    LET S == {i \in 1..Len(annotations) :
                 /\ annotations[i].start_byte_idx <= idx
                 /\ annotations[i].end_byte_idx > idx}
    IN IF S = {} THEN None
       ELSE Some(annotations[CHOOSE i \in S : \A j \in S : j <= i])

\* the for loop: the nearest start of an annotation after idx, len when
\* no annotation starts between idx and len
NearestBoundary(annotations, idx, len) ==
    LET S == {annotations[i].start_byte_idx :
                 i \in {j \in 1..Len(annotations) :
                           /\ annotations[j].start_byte_idx > idx
                           /\ annotations[j].start_byte_idx < len}}
    IN IF S = {} THEN len ELSE CHOOSE b \in S : \A c \in S : b <= c

\* the part from current_idx to end_idx is returned, current_idx moves to end_idx
YieldPart(it, end_idx, annotation_type) ==
    <<[it EXCEPT !.current_idx = end_idx],
      Some(AnnotatedStringPart(
               SubSeq(it.annotated_string.string, it.current_idx + 1, end_idx),
               annotation_type))>>

\* the part of an annotation, taken from the start of the annotation
AnnotatedPartFromStart(it, annotation) ==
    <<[it EXCEPT !.current_idx =
           Min(annotation.end_byte_idx, Len(it.annotated_string.string))],
      Some(AnnotatedStringPart(
               SubSeq(it.annotated_string.string, annotation.start_byte_idx + 1,
                      Min(annotation.end_byte_idx, Len(it.annotated_string.string))),
               Some(annotation.annotation_type)))>>

\* the part returned when an annotation contains current_idx
AnnotatedPart(it, annotation) ==
    YieldPart(it, Min(annotation.end_byte_idx, Len(it.annotated_string.string)),
              Some(annotation.annotation_type))

\* next, the annotation that contains current_idx looked up
NextPart(it, annotation) ==
    IF IsSome(annotation) THEN AnnotatedPart(it, Unwrap(annotation))
    ELSE YieldPart(it,
                   NearestBoundary(it.annotated_string.annotations, it.current_idx,
                                   Len(it.annotated_string.string)),
                   None)

iterator_next(it) ==
    IF it.current_idx >= Len(it.annotated_string.string) THEN <<it, None>>
    ELSE NextPart(it, LastContaining(it.annotated_string.annotations, it.current_idx))

----------------------------------------------------------------------------
(* Buffer: a record [lines, dirty] *)

height(b) == Len(b.lines)

\* lines with line number i (from 0) replaced by s
SetLine(ls, i, s) == [ls EXCEPT ![i + 1] = s]
InsertLine(ls, i, s) == SubSeq(ls, 1, i) \o <<s>> \o SubSeq(ls, i + 1, Len(ls))
RemoveLine(ls, i) == SubSeq(ls, 1, i) \o SubSeq(ls, i + 2, Len(ls))

\* the first Some among f[0], ..., f[n - 1], from k on
RECURSIVE FirstSome(_, _, _)
FirstSome(f, k, n) ==
    IF k >= n THEN None
    ELSE IF IsSome(f[k]) THEN f[k] ELSE FirstSome(f, k + 1, n)

\* the Location returned for a match found in line line_index
MatchLocation(line_index, found) ==
    IF IsSome(found) THEN Some(Location(line_index, Unwrap(found))) ELSE None

\* the body of the loop of search_forward for the k-th line visited
ForwardVisit(b, query, from, k, line_index) ==
    MatchLocation(line_index,
                  line_search_forward(b.lines[line_index + 1], query,
                                      IF k = 0 THEN from.grapheme_index ELSE 0))

\* search_forward, the starting line visited once
buffer_search_forward_one_visit(b, query, from) ==
    IF query = <<>> \/ b.lines = <<>> THEN None
    ELSE FirstSome([k \in 0..Len(b.lines) |->
                       ForwardVisit(b, query, from, k,
                                    (from.line_index + k) % Len(b.lines))],
                   0, Len(b.lines))

\* search_forward, the empty query searched for like any other
buffer_search_forward_any_query(b, query, from) ==
    IF b.lines = <<>> THEN None
    ELSE FirstSome([k \in 0..Len(b.lines) |->
                       ForwardVisit(b, query, from, k,
                                    (from.line_index + k) % Len(b.lines))],
                   0, Len(b.lines) + 1)

buffer_search_forward(b, query, from) ==
    IF query = <<>> \/ b.lines = <<>> THEN None
    ELSE FirstSome([k \in 0..Len(b.lines) |->
                       ForwardVisit(b, query, from, k,
                                    (from.line_index + k) % Len(b.lines))],
                   0, Len(b.lines) + 1)

\* the body of the loop of search_backward for the k-th line visited
BackwardVisit(b, query, from, k, line_index) ==
    MatchLocation(line_index,
                  line_search_backward(b.lines[line_index + 1], query,
                                       IF k = 0 THEN from.grapheme_index
                                       ELSE grapheme_count(b.lines[line_index + 1])))

buffer_search_backward(b, query, from) ==
    IF query = <<>> \/ b.lines = <<>> THEN None
    ELSE FirstSome([k \in 0..Len(b.lines) |->
                       BackwardVisit(b, query, from, k,
                                     Len(b.lines) - 1
                                     - ((SatSub(SatSub(Len(b.lines), from.line_index), 1)
                                         + k) % Len(b.lines)))],
                   0, Len(b.lines) + 1)

buffer_insert_char(b, character, at) ==
    IF at.line_index = height(b)
    THEN [b EXCEPT !.lines = Append(b.lines, <<character>>), !.dirty = TRUE]
    ELSE IF at.line_index < height(b)
    THEN [b EXCEPT !.lines = SetLine(b.lines, at.line_index,
                        insert_char(b.lines[at.line_index + 1], character,
                                    at.grapheme_index)),
                   !.dirty = TRUE]
    ELSE b

\* delete that merges only past the end of the line
buffer_delete_past_end(b, at) ==
    IF at.line_index < height(b)
    THEN LET line == b.lines[at.line_index + 1]
         IN IF /\ at.grapheme_index > grapheme_count(line)
               /\ height(b) > at.line_index + 1
            THEN LET next_line == b.lines[at.line_index + 2]
                     removed == RemoveLine(b.lines, at.line_index + 1)
                 IN [b EXCEPT !.lines = SetLine(removed, at.line_index,
                                                append(line, next_line)),
                              !.dirty = TRUE]
            ELSE IF at.grapheme_index < grapheme_count(line)
            THEN [b EXCEPT !.lines = SetLine(b.lines, at.line_index,
                                             line_delete(line, at.grapheme_index)),
                           !.dirty = TRUE]
            ELSE b
    ELSE b

buffer_delete(b, at) ==
    IF at.line_index < height(b)
    THEN LET line == b.lines[at.line_index + 1]
         IN IF /\ at.grapheme_index >= grapheme_count(line)
               /\ height(b) > at.line_index + 1
            THEN LET next_line == b.lines[at.line_index + 2]
                     removed == RemoveLine(b.lines, at.line_index + 1)
                 IN [b EXCEPT !.lines = SetLine(removed, at.line_index,
                                                append(line, next_line)),
                              !.dirty = TRUE]
            ELSE IF at.grapheme_index < grapheme_count(line)
            THEN [b EXCEPT !.lines = SetLine(b.lines, at.line_index,
                                             line_delete(line, at.grapheme_index)),
                           !.dirty = TRUE]
            ELSE b
    ELSE b

\* insert_newline that appends the empty line without marking the Buffer
buffer_insert_newline_unmarked(b, at) ==
    IF at.line_index = height(b)
    THEN [b EXCEPT !.lines = Append(b.lines, <<>>)]
    ELSE IF at.line_index < height(b)
    THEN LET parts == split(b.lines[at.line_index + 1], at.grapheme_index)
         IN [b EXCEPT !.lines = InsertLine(SetLine(b.lines, at.line_index, parts[1]),
                                           at.line_index + 1, parts[2]),
                      !.dirty = TRUE]
    ELSE b

buffer_insert_newline(b, at) ==
    IF at.line_index = height(b)
    THEN [b EXCEPT !.lines = Append(b.lines, <<>>), !.dirty = TRUE]
    ELSE IF at.line_index < height(b)
    THEN LET parts == split(b.lines[at.line_index + 1], at.grapheme_index)
         IN [b EXCEPT !.lines = InsertLine(SetLine(b.lines, at.line_index, parts[1]),
                                           at.line_index + 1, parts[2]),
                      !.dirty = TRUE]
    ELSE b

----------------------------------------------------------------------------
(* View: a record [buffer, text_location, scroll_offset, size, search_info, *)
(* searched, found]; searched is the `from` of the search_in_direction call *)
(* made while the current command is handled, None when it made none, and   *)
(* found the location the document search of that call returned.            *)

\* buffer.lines.get(i)
GetLine(v, i) == IF i < Len(v.buffer.lines) THEN Some(v.buffer.lines[i + 1]) ELSE None

\* buffer.lines.get(i).map_or(0, Line::grapheme_count)
CountAt(v, i) == IF IsSome(GetLine(v, i)) THEN grapheme_count(Unwrap(GetLine(v, i))) ELSE 0

text_location_to_position(v) ==
    LET row == v.text_location.line_index
        line == GetLine(v, row)
    IN Position(row, IF IsSome(line)
                     THEN width_until(Unwrap(line), v.text_location.grapheme_index)
                     ELSE 0)

\* scroll_vertically, the row below the window taken for its last row
scroll_vertically_off_by_one(v, to) ==
    IF to < v.scroll_offset.row
    THEN [v EXCEPT !.scroll_offset.row = to]
    ELSE IF to >= v.scroll_offset.row + v.size.height
    THEN [v EXCEPT !.scroll_offset.row = SatSub(to, v.size.height)]
    ELSE v

scroll_vertically(v, to) ==
    IF to < v.scroll_offset.row
    THEN [v EXCEPT !.scroll_offset.row = to, !.needs_redraw = TRUE]
    ELSE IF to >= v.scroll_offset.row + v.size.height
    THEN [v EXCEPT !.scroll_offset.row = SatSub(to, v.size.height) + 1,
                   !.needs_redraw = TRUE]
    ELSE v

\* scroll_horizontally, the window's left edge put on a column right of it
scroll_horizontally_to_column(v, to) ==
    IF to < v.scroll_offset.col
    THEN [v EXCEPT !.scroll_offset.col = to, !.needs_redraw = TRUE]
    ELSE IF to >= v.scroll_offset.col + v.size.width
    THEN [v EXCEPT !.scroll_offset.col = to, !.needs_redraw = TRUE]
    ELSE v

scroll_horizontally(v, to) ==
    IF to < v.scroll_offset.col
    THEN [v EXCEPT !.scroll_offset.col = to, !.needs_redraw = TRUE]
    ELSE IF to >= v.scroll_offset.col + v.size.width
    THEN [v EXCEPT !.scroll_offset.col = SatSub(to, v.size.width) + 1,
                   !.needs_redraw = TRUE]
    ELSE v

scroll_text_location_into_view(v) ==
    LET pos == text_location_to_position(v)
    IN scroll_horizontally(scroll_vertically(v, pos.row), pos.col)

center_text_location(v) ==
    LET pos == text_location_to_position(v)
        vertical_mid == DivCeil(v.size.height, 2)
        horizontal_mid == DivCeil(v.size.width, 2)
    IN [v EXCEPT !.scroll_offset = Position(SatSub(pos.row, vertical_mid),
                                            SatSub(pos.col, horizontal_mid)),
                 !.needs_redraw = TRUE]

snap_to_valid_grapheme(v) ==
    LET line == GetLine(v, v.text_location.line_index)
    IN [v EXCEPT !.text_location.grapheme_index =
            IF IsSome(line)
            THEN Min(grapheme_count(Unwrap(line)), v.text_location.grapheme_index)
            ELSE 0]

snap_to_valid_line(v) ==
    [v EXCEPT !.text_location.line_index =
        Min(v.text_location.line_index, height(v.buffer))]

move_up(v, step) ==
    snap_to_valid_grapheme(
        [v EXCEPT !.text_location.line_index = SatSub(v.text_location.line_index, step)])

\* move_down, the line index not snapped to the document
move_down_unsnapped(v, step) ==
    snap_to_valid_grapheme(
        [v EXCEPT !.text_location.line_index = v.text_location.line_index + step])

move_down(v, step) ==
    snap_to_valid_line(snap_to_valid_grapheme(
        [v EXCEPT !.text_location.line_index = v.text_location.line_index + step]))

move_to_start_of_line(v) == [v EXCEPT !.text_location.grapheme_index = 0]

move_to_end_of_line(v) ==
    [v EXCEPT !.text_location.grapheme_index = CountAt(v, v.text_location.line_index)]

\* move_right, stopping at the end of the line
move_right_within_line(v) ==
    LET line_width == CountAt(v, v.text_location.line_index)
    IN IF v.text_location.grapheme_index < line_width
       THEN [v EXCEPT !.text_location.grapheme_index = v.text_location.grapheme_index + 1]
       ELSE v

move_right(v) ==
    LET line_width == CountAt(v, v.text_location.line_index)
    IN IF v.text_location.grapheme_index < line_width
       THEN [v EXCEPT !.text_location.grapheme_index = v.text_location.grapheme_index + 1]
       ELSE move_down(move_to_start_of_line(v), 1)

move_left(v) ==
    IF v.text_location.grapheme_index > 0
    THEN [v EXCEPT !.text_location.grapheme_index = v.text_location.grapheme_index - 1]
    ELSE IF v.text_location.line_index > 0
    THEN move_to_end_of_line(move_up(v, 1))
    ELSE v

Moves == {"Up", "Down", "Left", "Right", "PageUp", "PageDown",
          "StartOfLine", "EndOfLine"}

\* handle_move_command, asking for a redraw after every move
handle_move_command_redrawing(v, command) ==
    LET moved == CASE command = "Up" -> move_up(v, 1)
                   [] command = "Down" -> move_down(v, 1)
                   [] command = "Left" -> move_left(v)
                   [] command = "Right" -> move_right(v)
                   [] command = "PageUp" -> move_up(v, SatSub(v.size.height, 1))
                   [] command = "PageDown" -> move_down(v, SatSub(v.size.height, 1))
                   [] command = "StartOfLine" -> move_to_start_of_line(v)
                   [] command = "EndOfLine" -> move_to_end_of_line(v)
    IN [scroll_text_location_into_view(moved) EXCEPT !.needs_redraw = TRUE]

handle_move_command(v, command) ==
    LET moved == CASE command = "Up" -> move_up(v, 1)
                   [] command = "Down" -> move_down(v, 1)
                   [] command = "Left" -> move_left(v)
                   [] command = "Right" -> move_right(v)
                   [] command = "PageUp" -> move_up(v, SatSub(v.size.height, 1))
                   [] command = "PageDown" -> move_down(v, SatSub(v.size.height, 1))
                   [] command = "StartOfLine" -> move_to_start_of_line(v)
                   [] command = "EndOfLine" -> move_to_end_of_line(v)
    IN scroll_text_location_into_view(moved)

set_size(v, new_size) ==
    scroll_text_location_into_view([v EXCEPT !.size = new_size])

\* UIComponent::resize
resize(v, new_size) == [set_size(v, new_size) EXCEPT !.needs_redraw = TRUE]

(* Text editing *)

view_insert_newline(v) ==
    [handle_move_command(
        [v EXCEPT !.buffer = buffer_insert_newline(v.buffer, v.text_location)],
        "Right")
     EXCEPT !.needs_redraw = TRUE]

view_delete(v) ==
    [v EXCEPT !.buffer = buffer_delete(v.buffer, v.text_location),
              !.needs_redraw = TRUE]

delete_backward(v) ==
    IF v.text_location.line_index # 0 \/ v.text_location.grapheme_index # 0
    THEN view_delete(handle_move_command(v, "Left"))
    ELSE v

view_insert_char(v, character) ==
    LET old_len == CountAt(v, v.text_location.line_index)
        inserted == [v EXCEPT !.buffer =
                        buffer_insert_char(v.buffer, character, v.text_location)]
        new_len == CountAt(inserted, v.text_location.line_index)
    IN [IF SatSub(new_len, old_len) > 0
        THEN handle_move_command(inserted, "Right")
        ELSE inserted
        EXCEPT !.needs_redraw = TRUE]

\* an Edit command is <<"Insert", c>>, <<"Delete">>, <<"DeleteBackward">> or
\* <<"InsertNewline">>
handle_edit_command(v, command) ==
    CASE command[1] = "Insert" -> view_insert_char(v, command[2])
      [] command[1] = "Delete" -> view_delete(v)
      [] command[1] = "DeleteBackward" -> delete_backward(v)
      [] command[1] = "InsertNewline" -> view_insert_newline(v)

(* Search *)

SearchInfo(loc, off, query) ==
    [prev_location |-> loc, prev_scroll_offset |-> off, query |-> query]

enter_search(v) ==
    [v EXCEPT !.search_info =
        Some(SearchInfo(v.text_location, v.scroll_offset, None))]

\* exit_search, going back to where search mode was entered
exit_search_to_prev_location(v) ==
    [v EXCEPT !.search_info = None,
              !.text_location = IF IsSome(v.search_info)
                                THEN Unwrap(v.search_info).prev_location
                                ELSE v.text_location,
              !.needs_redraw = TRUE]

exit_search(v) == [v EXCEPT !.search_info = None, !.needs_redraw = TRUE]

\* dismiss_search, the cursor left on the match
dismiss_search_on_match(v) ==
    exit_search(
        IF IsSome(v.search_info)
        THEN scroll_text_location_into_view(
                [v EXCEPT !.scroll_offset = Unwrap(v.search_info).prev_scroll_offset])
        ELSE v)

dismiss_search(v) ==
    exit_search(
        IF IsSome(v.search_info)
        THEN scroll_text_location_into_view(
                [v EXCEPT !.text_location = Unwrap(v.search_info).prev_location,
                          !.scroll_offset = Unwrap(v.search_info).prev_scroll_offset])
        ELSE v)

get_search_query(v) ==
    IF IsSome(v.search_info) THEN Unwrap(v.search_info).query ELSE None

\* the closure of search_in_direction: the match for the query, if any
FindMatch(v, query, from, direction) ==
    IF ~IsSome(query) \/ Unwrap(query) = <<>> THEN None
    ELSE IF direction = "Forward"
    THEN buffer_search_forward(v.buffer, Unwrap(query), from)
    ELSE buffer_search_backward(v.buffer, Unwrap(query), from)

\* search_in_direction once the match is known: move to it and center
MoveToMatch(v, location) ==
    IF IsSome(location)
    THEN center_text_location([v EXCEPT !.text_location = Unwrap(location),
                                        !.found = location])
    ELSE v

search_in_direction(v, from, direction) ==
    [MoveToMatch([v EXCEPT !.searched = Some(from)],
                 FindMatch(v, get_search_query(v), from, direction))
     EXCEPT !.needs_redraw = TRUE]

\* View::search, the query being set, from where search mode was entered
SearchFromPrevLocation(v) ==
    search_in_direction(v,
                        IF IsSome(v.search_info)
                        THEN Unwrap(v.search_info).prev_location
                        ELSE v.text_location,
                        "Forward")

\* View::search, the query being set
SearchFromCursor(v) == search_in_direction(v, v.text_location, "Forward")

view_search(v, query) ==
    SearchFromCursor(
        IF IsSome(v.search_info)
        THEN [v EXCEPT !.search_info = Some([Unwrap(v.search_info)
                                             EXCEPT !.query = Some(query)])]
        ELSE v)

\* step_right of search_next
StepRight(query) ==
    IF IsSome(query) THEN Min(grapheme_count(Unwrap(query)), 1) ELSE 1

search_next(v) ==
    search_in_direction(
        v,
        Location(v.text_location.line_index,
                 v.text_location.grapheme_index + StepRight(get_search_query(v))),
        "Forward")

search_prev(v) == search_in_direction(v, v.text_location, "Backward")

(* CommandBar *)

\* CommandBar::handle_edit_command on the value
command_bar_edit(val, command) ==
    CASE command[1] = "Insert" -> append_char(val, command[2])
      [] command[1] = "DeleteBackward" -> delete_last(val)
      [] OTHER -> val

----------------------------------------------------------------------------
(* Editor: the state machine of process_command *)

Chars == {"a", "W", "m"}

\* strings of at most n code points of chars
RECURSIVE StringsUpTo(_, _)
StringsUpTo(chars, n) ==
    IF n = 0 THEN {<<>>}
    ELSE StringsUpTo(chars, n - 1) \cup
         {Append(s, c) : s \in {t \in StringsUpTo(chars, n - 1) : Len(t) = n - 1},
                         c \in chars}

\* the documents the editor starts on: no file, or a file of two lines
InitDocs == {<<>>, <<<<"W", "m">>, <<"a">>>>}

\* what Terminal::size and a Resize event can report: the terminals that
\* leave the View a square of side 0..MaxViewSide, and one of height 1
TermSizes == {Size(1, 0)} \cup {Size(k + 2, k) : k \in 0..MaxViewSide}

InBounds(b) ==
    /\ Len(b.lines) <= MaxLines
    /\ \A i \in 1..Len(b.lines) : Len(b.lines[i]) <= MaxLineLen

\* the View of the current state, no search issued yet
V == [buffer |-> [lines |-> lines, dirty |-> dirty],
      text_location |-> text_location,
      scroll_offset |-> scroll_offset,
      size |-> size,
      search_info |-> search_info,
      searched |-> None,
      found |-> None,
      needs_redraw |-> FALSE]

DefaultView == [buffer |-> [lines |-> <<>>, dirty |-> FALSE],
                text_location |-> Location(0, 0),
                scroll_offset |-> Position(0, 0),
                size |-> Size(0, 0),
                search_info |-> None,
                searched |-> None,
                found |-> None,
                needs_redraw |-> FALSE]

\* the View becomes v, after the command named cmd
SetView(v, cmd) ==
    /\ lines' = v.buffer.lines
    /\ dirty' = v.buffer.dirty
    /\ text_location' = v.text_location
    /\ scroll_offset' = v.scroll_offset
    /\ size' = v.size
    /\ search_info' = v.search_info
    /\ last' = [cmd |-> cmd, from |-> v.searched, found |-> v.found,
                moved |-> /\ cmd = "Dismiss"
                          /\ \/ v.text_location # text_location
                             \/ v.scroll_offset # scroll_offset]

\* Editor::handle_resize_command
handle_resize_command(v, terminal_size) ==
    resize(v, Size(SatSub(terminal_size.height, 2), terminal_size.width))

\* Editor::new: the terminal size is applied to the default View, then the
\* file named on the command line, if any, is loaded
Init ==
    /\ \E terminal_size \in TermSizes \cup {Size(0, 0)} :
         LET v == handle_resize_command(DefaultView, terminal_size)
         IN /\ size = v.size
            /\ scroll_offset = v.scroll_offset
            /\ text_location = v.text_location
    /\ lines \in InitDocs
    /\ dirty = FALSE
    /\ search_info = None
    /\ prompt_type = "None"
    /\ value = <<>>
    /\ last = [cmd |-> "Init", from |-> None, found |-> None, moved |-> FALSE]
    /\ harness = [fn |-> "none"]

\* System(Resize(size)), with any prompt
ResizeCmd ==
    /\ \E terminal_size \in TermSizes :
         SetView(handle_resize_command(V, terminal_size), "Resize")
    /\ UNCHANGED <<prompt_type, value, harness>>

\* Move(move_command), no prompt
MoveCmd ==
    /\ prompt_type = "None"
    /\ \E command \in Moves : SetView(handle_move_command(V, command), "Move")
    /\ UNCHANGED <<prompt_type, value, harness>>

Edits == {<<"Insert", c>> : c \in Chars}
         \cup {<<"Delete">>, <<"DeleteBackward">>, <<"InsertNewline">>}

\* Edit(edit_command), no prompt
EditCmd ==
    /\ prompt_type = "None"
    /\ \E command \in Edits :
         LET v == handle_edit_command(V, command)
         IN /\ InBounds(v.buffer)
            /\ SetView(v, "Edit")
    /\ UNCHANGED <<prompt_type, value, harness>>

\* the documents on which the model follows the search prompt
SearchDocs == {<<<<"a", "a">>, <<"W", "a">>>>, <<<<"a", "m">>, <<"a">>>>}

\* System(Search), no prompt: set_prompt(PromptType::Search)
SearchCmd ==
    /\ prompt_type = "None"
    /\ lines \in SearchDocs
    /\ SetView(enter_search(V), "Search")
    /\ value' = <<>>
    /\ prompt_type' = "Search"
    /\ UNCHANGED harness

\* System(Dismiss), no prompt: nothing to do
IgnoredCmd ==
    /\ prompt_type = "None"
    /\ UNCHANGED vars

\* System(Dismiss) in the search prompt
DismissCmd ==
    /\ prompt_type = "Search"
    /\ SetView(dismiss_search(V), "Dismiss")
    /\ value' = <<>>
    /\ prompt_type' = "None"
    /\ UNCHANGED harness

\* Edit(InsertNewline) in the search prompt
AcceptCmd ==
    /\ prompt_type = "Search"
    /\ SetView(exit_search(V), "Accept")
    /\ value' = <<>>
    /\ prompt_type' = "None"
    /\ UNCHANGED harness

\* Edit(edit_command) in the search prompt
SearchEditCmd ==
    /\ prompt_type = "Search"
    /\ \E command \in Edits \ {<<"InsertNewline">>} :
         LET query == command_bar_edit(value, command)
         IN /\ Len(query) <= MaxQueryLen
            /\ value' = query
            /\ SetView(view_search(V, query), "SearchEdit")
    /\ UNCHANGED <<prompt_type, harness>>

\* Move(Right | Down) in the search prompt
SearchNextCmd ==
    /\ prompt_type = "Search"
    /\ SetView(search_next(V), "SearchNext")
    /\ UNCHANGED <<prompt_type, value, harness>>

\* Move(Up | Left) in the search prompt
SearchPrevCmd ==
    /\ prompt_type = "Search"
    /\ SetView(search_prev(V), "SearchPrev")
    /\ UNCHANGED <<prompt_type, value, harness>>

\* System(Quit | Search | Save) and the other Moves in the search prompt
SearchIgnoredCmd ==
    /\ prompt_type = "Search"
    /\ UNCHANGED vars

Next ==
    \/ ResizeCmd
    \/ MoveCmd
    \/ EditCmd
    \/ SearchCmd
    \/ IgnoredCmd
    \/ DismissCmd
    \/ AcceptCmd
    \/ SearchEditCmd
    \/ SearchNextCmd
    \/ SearchPrevCmd
    \/ SearchIgnoredCmd

Spec == Init /\ [][Next]_vars

----------------------------------------------------------------------------
(* AnnotatedString::replace called on an annotated string *)

\* the editor, idle while a function is called on its own
EditorIdle ==
    /\ lines = <<>>
    /\ dirty = FALSE
    /\ text_location = Location(0, 0)
    /\ scroll_offset = Position(0, 0)
    /\ size = Size(0, 0)
    /\ search_info = None
    /\ prompt_type = "None"
    /\ value = <<>>
    /\ last = [cmd |-> "Init", from |-> None, found |-> None, moved |-> FALSE]

\* the text of the strings and of the replacements: no character twice
Letters == <<"a", "b", "c", "d", "e">>
NewLetters == <<"x", "y", "z">>

\* AnnotatedString::from
InitReplace ==
    /\ EditorIdle
    /\ \E n \in 0..MaxStrLen :
         harness = [fn |-> "replace",
                    before |-> [string |-> SubSeq(Letters, 1, n), annotations |-> <<>>],
                    args |-> None,
                    after |-> None]

\* add_annotation of a range of the string that is not empty
AddAnnotationCall ==
    /\ ~IsSome(harness.after)
    /\ Len(harness.before.annotations) < MaxAnnotations
    /\ \E end_byte_idx \in 1..Len(harness.before.string) :
         \E start_byte_idx \in 0..(end_byte_idx - 1) :
            \E annotation_type \in AnnotationTypes :
               harness' = [harness EXCEPT !.before =
                   add_annotation(@, annotation_type, start_byte_idx, end_byte_idx)]
    /\ UNCHANGED editorVars

\* replace(start_byte_idx, end_byte_idx, new_string), start_byte_idx <= end_byte_idx
ReplaceCall ==
    /\ ~IsSome(harness.after)
    /\ \E start_byte_idx \in 0..(Len(harness.before.string) + 1) :
         \E end_byte_idx \in start_byte_idx..(Len(harness.before.string) + 1) :
            \E n \in 0..MaxNewLen :
               harness' = [harness EXCEPT
                   !.args = Some([start_byte_idx |-> start_byte_idx,
                                  end_byte_idx |-> end_byte_idx,
                                  new_string |-> SubSeq(NewLetters, 1, n)]),
                   !.after = Some(replace(harness.before, start_byte_idx, end_byte_idx,
                                          SubSeq(NewLetters, 1, n)))]
    /\ UNCHANGED editorVars

NextReplace ==
    \/ AddAnnotationCall
    \/ ReplaceCall

SpecReplace == InitReplace /\ [][NextReplace]_vars

----------------------------------------------------------------------------
(* An AnnotatedString iterated *)

\* the annotations of a string of len bytes, none empty, none past the end
ValidAnnotations(len) ==
    {Annotation(annotation_type, start_byte_idx, end_byte_idx) :
        annotation_type \in AnnotationTypes,
        start_byte_idx \in 0..(len - 1),
        end_byte_idx \in 1..len}
    \cap {a \in [annotation_type : AnnotationTypes, start_byte_idx : 0..len,
                  end_byte_idx : 0..len] : a.start_byte_idx < a.end_byte_idx}

\* AnnotatedString::from, add_annotation up to MaxAnnotations times, into_iter
InitIterate ==
    /\ EditorIdle
    /\ \E n \in 0..MaxStrLen :
         \E k \in 0..MaxAnnotations :
            \E annotations \in [1..k -> ValidAnnotations(n)] :
               harness = [fn |-> "iterate",
                          it |-> into_iter([string |-> SubSeq(Letters, 1, n),
                                            annotations |-> annotations]),
                          parts |-> <<>>,
                          done |-> FALSE]

\* the harness after next has returned <<iterator, item>>
Collected(h, returned) ==
    [h EXCEPT !.it = returned[1],
              !.parts = IF IsSome(returned[2]) THEN Append(@, Unwrap(returned[2])) ELSE @,
              !.done = ~IsSome(returned[2])]

\* next, until it returns None
IteratorNextCall ==
    /\ ~harness.done
    /\ harness' = Collected(harness, iterator_next(harness.it))
    /\ UNCHANGED editorVars

NextIterate == IteratorNextCall

SpecIterate == InitIterate /\ [][NextIterate]_vars

----------------------------------------------------------------------------
(* Buffer::search_forward called on a document *)

ScanChars == {"a", "m"}

\* documents of one line, and of two short lines
ScanDocs ==
    {<<l>> : l \in StringsUpTo(ScanChars, MaxScanLineLen)}
    \cup {<<l1, l2>> : l1 \in StringsUpTo(ScanChars, MaxLineLen),
                       l2 \in StringsUpTo(ScanChars, MaxLineLen)}

InitSearchForward ==
    /\ EditorIdle
    /\ \E doc \in ScanDocs :
         \E query \in StringsUpTo(ScanChars, MaxScanQueryLen) :
            harness = [fn |-> "search_forward", doc |-> doc, query |-> query,
                       from |-> None, ret |-> None]

\* search_forward(query, from), from a valid Location of the document
SearchForwardCall ==
    /\ ~IsSome(harness.from)
    /\ \E line_index \in 0..Len(harness.doc) :
         \E grapheme_index \in
               0..(IF line_index < Len(harness.doc)
                   THEN grapheme_count(harness.doc[line_index + 1]) ELSE 0) :
            harness' = [harness EXCEPT
                !.from = Some(Location(line_index, grapheme_index)),
                !.ret = buffer_search_forward([lines |-> harness.doc, dirty |-> FALSE],
                                              harness.query,
                                              Location(line_index, grapheme_index))]
    /\ UNCHANGED editorVars

NextSearchForward == SearchForwardCall

SpecSearchForward == InitSearchForward /\ [][NextSearchForward]_vars

----------------------------------------------------------------------------
(* View::search, then search_next repeated *)

\* the lines of the documents
NextLineSet ==
    StringsUpTo(ScanChars, MaxLineLen)
    \cup {<<"a", "m", "a">>, <<"a", "m", "a", "m", "a">>}

RECURSIVE DocsUpTo(_, _)
DocsUpTo(lineSet, n) ==
    IF n = 0 THEN {<<>>}
    ELSE DocsUpTo(lineSet, n - 1) \cup
         {Append(d, l) : d \in {e \in DocsUpTo(lineSet, n - 1) : Len(e) = n - 1},
                         l \in lineSet}

OneMatchDoc == <<<<"a", "b">>, <<"c", "d", "e">>>>
OneMatchQuery == <<"c", "d">>

NextDocs == DocsUpTo(NextLineSet, MaxNextLines) \cup {OneMatchDoc}
NextQueries == {<<"a">>, <<"a", "m">>, <<"a", "m", "a">>, OneMatchQuery}

\* search mode entered at the top of the document, and View::search called
\* with a query that has a match
InitSearchNext ==
    \E doc \in NextDocs :
       \E query \in NextQueries :
          LET v == view_search(
                       enter_search([DefaultView EXCEPT
                                        !.buffer.lines = doc,
                                        !.size = Size(MaxViewSide, MaxViewSide)]),
                       query)
          IN /\ IsSome(v.found)
             /\ lines = doc
             /\ dirty = FALSE
             /\ text_location = v.text_location
             /\ scroll_offset = v.scroll_offset
             /\ size = v.size
             /\ search_info = v.search_info
             /\ prompt_type = "Search"
             /\ value = query
             /\ last = [cmd |-> "SearchEdit", from |-> v.searched, found |-> v.found,
                        moved |-> FALSE]
             /\ harness = [fn |-> "search_next",
                           visited |-> <<v.text_location>>,
                           ret |-> v.found]

\* search_next
SearchNextCall ==
    /\ Len(harness.visited) < MaxVisits
    /\ LET v == search_next(V)
       IN /\ SetView(v, "SearchNext")
          /\ harness' = [harness EXCEPT !.visited = Append(@, v.text_location),
                                        !.ret = v.found]
    /\ UNCHANGED <<prompt_type, value>>

NextSearchNext == SearchNextCall

SpecSearchNext == InitSearchNext /\ [][NextSearchNext]_vars

----------------------------------------------------------------------------
(* Line::split, then Line::append of the line it returned *)

\* the text of the lines edited: two letters and a combining mark
EditChars == {"a", "b", "m"}

\* Line::from
InitSplit ==
    /\ EditorIdle
    /\ \E s \in StringsUpTo(EditChars, MaxSplitLen) :
         harness = [fn |-> "split", original |-> s, line |-> s,
                    at |-> None, tail |-> None, appended |-> FALSE]

\* the harness after split(at) has returned <<what stays, the line returned>>
SplitReturned(h, at, parts) ==
    [h EXCEPT !.line = parts[1], !.at = Some(at), !.tail = Some(parts[2])]

\* let tail = line.split(at)
SplitCall ==
    /\ ~IsSome(harness.tail)
    /\ \E at \in 0..(MaxSplitLen + 1) :
         harness' = SplitReturned(harness, at, split(harness.line, at))
    /\ UNCHANGED editorVars

\* line.append(&tail)
AppendCall ==
    /\ IsSome(harness.tail)
    /\ ~harness.appended
    /\ harness' = [harness EXCEPT !.line = append(@, Unwrap(harness.tail)),
                                  !.appended = TRUE]
    /\ UNCHANGED editorVars

NextSplit == SplitCall \/ AppendCall

SpecSplit == InitSplit /\ [][NextSplit]_vars

----------------------------------------------------------------------------
(* Buffer::delete and Buffer::insert_newline called on a document *)

\* the Buffer in the variables
B == [lines |-> lines, dirty |-> dirty]

\* the locations the calls are made at: in the document, at and past the
\* end of a line, at and past the end of the document
EditLocations ==
    {Location(l, g) : l \in 0..(MaxLines + 1), g \in 0..(MaxLineLen + 1)}

\* a document loaded, no call made yet
InitBufferEdit ==
    /\ lines \in DocsUpTo(StringsUpTo(EditChars, MaxLineLen), MaxLines)
    /\ dirty = FALSE
    /\ text_location = Location(0, 0)
    /\ scroll_offset = Position(0, 0)
    /\ size = Size(0, 0)
    /\ search_info = None
    /\ prompt_type = "None"
    /\ value = <<>>
    /\ last = [cmd |-> "Init", from |-> None, found |-> None, moved |-> FALSE]
    /\ harness = [fn |-> "buffer_edit", calls |-> <<>>]

\* the call op(at) has turned the Buffer into b
BufferCalled(op, at, b) ==
    /\ lines' = b.lines
    /\ dirty' = b.dirty
    /\ harness' = [harness EXCEPT !.calls =
                       Append(@, [op |-> op, at |-> at, before |-> B])]
    /\ UNCHANGED <<text_location, scroll_offset, size, search_info, prompt_type,
                   value, last>>

BufferDeleteCall ==
    /\ Len(harness.calls) < MaxCalls
    /\ \E at \in EditLocations : BufferCalled("delete", at, buffer_delete(B, at))

BufferInsertNewlineCall ==
    /\ Len(harness.calls) < MaxCalls
    /\ \E at \in EditLocations :
         BufferCalled("insert_newline", at, buffer_insert_newline(B, at))

NextBufferEdit == BufferDeleteCall \/ BufferInsertNewlineCall

SpecBufferEdit == InitBufferEdit /\ [][NextBufferEdit]_vars

----------------------------------------------------------------------------
(* Saving: the Buffer here is a record [lines, dirty, file_info], file_info *)
(* the Option of the path. The file system answers a write with io: None    *)
(* when File::create fails, Some(k) when k lines were written, which is a   *)
(* failure of writeln! unless k is the number of lines.                     *)

\* FileInfo::from
FileInfo(file_name) == Some(file_name)

\* Buffer::is_file_loaded, FileInfo::has_path
is_file_loaded(b) == IsSome(b.file_info)

\* the answers of the file system to a write of the lines to file_info; a
\* file of the empty name cannot be created
IOOutcomes(b, file_info) ==
    IF IsSome(file_info) /\ Unwrap(file_info) = <<>> THEN {None}
    ELSE {None} \cup {Some(k) : k \in 0..Len(b.lines)}

\* Buffer::save_to_file: [ok, wrote], ok when Ok(()) is returned, wrote when
\* the file was created
save_to_file(b, file_info, io) ==
    IF IsSome(file_info)
    THEN [ok |-> IsSome(io) /\ Unwrap(io) = Len(b.lines), wrote |-> IsSome(io)]
    ELSE [ok |-> TRUE, wrote |-> FALSE]

\* the rest of save_as after save_to_file has returned
AfterSaveAs(b, file_info, returned) ==
    [buffer |-> IF returned.ok THEN [b EXCEPT !.file_info = file_info, !.dirty = FALSE]
                ELSE b,
     ok |-> returned.ok,
     wrote |-> returned.wrote]

\* save_as that takes the new file name before it writes
buffer_save_as_adopting(b, file_name, io) ==
    AfterSaveAs([b EXCEPT !.file_info = FileInfo(file_name)], FileInfo(file_name),
                save_to_file(b, FileInfo(file_name), io))

\* Buffer::save_as: [buffer, ok, wrote]
buffer_save_as(b, file_name, io) ==
    AfterSaveAs(b, FileInfo(file_name), save_to_file(b, FileInfo(file_name), io))

\* the rest of save after save_to_file has returned
AfterSave(b, returned) ==
    [buffer |-> IF returned.ok THEN [b EXCEPT !.dirty = FALSE] ELSE b,
     ok |-> returned.ok,
     wrote |-> returned.wrote]

\* Buffer::save: [buffer, ok, wrote]
buffer_save(b, io) == AfterSave(b, save_to_file(b, b.file_info, io))

\* View::save, View::save_as
view_save(b, io) == buffer_save(b, io)
view_save_as(b, file_name, io) == buffer_save_as(b, file_name, io)

\* the rest of Editor::save after the View has returned
Messaged(returned) ==
    [buffer |-> returned.buffer,
     ok |-> returned.ok,
     wrote |-> returned.wrote,
     message |-> IF returned.ok THEN "File saved successfully."
                 ELSE "Error writing file!"]

\* Editor::save: [buffer, ok, wrote, message]
editor_save(b, file_name, io) ==
    IF IsSome(file_name) THEN Messaged(view_save_as(b, Unwrap(file_name), io))
    ELSE Messaged(view_save(b, io))

\* the Buffer in the variables and the harness
SB == [lines |-> lines, dirty |-> dirty, file_info |-> harness.file_info]

\* the file names typed in the Save prompt
NameChars == {"f", "g"}

\* the edits fit the bounds of the model
FitsBounds(b) ==
    /\ Len(b.lines) <= MaxLines
    /\ \A i \in 1..Len(b.lines) : Len(b.lines[i]) <= MaxLineLen

\* an editor without a file, or a file loaded
InitSave ==
    /\ lines \in DocsUpTo(StringsUpTo(EditChars, MaxLineLen), MaxLines)
    /\ dirty = FALSE
    /\ text_location = Location(0, 0)
    /\ scroll_offset = Position(0, 0)
    /\ size = Size(0, 0)
    /\ search_info = None
    /\ prompt_type = "None"
    /\ value = <<>>
    /\ last = [cmd |-> "Init", from |-> None, found |-> None, moved |-> FALSE]
    /\ \E file_info \in {None, FileInfo(<<"f">>)} :
         /\ file_info = None => lines = <<>>
         /\ harness = [fn |-> "save",
                       file_info |-> file_info,
                       changed |-> FALSE,
                       message |-> "",
                       call |-> [op |-> "load", ok |-> TRUE, wrote |-> FALSE,
                                 before |-> [lines |-> lines, dirty |-> FALSE,
                                             file_info |-> file_info]]]

\* an edit has turned the Buffer into b: changed records that the lines
\* are no longer the lines created, loaded or last saved
Edited(op, b) ==
    /\ FitsBounds(b)
    /\ lines' = b.lines
    /\ dirty' = b.dirty
    /\ harness' = [harness EXCEPT
                      !.changed = @ \/ b.lines # lines,
                      !.call = [op |-> op, ok |-> TRUE, wrote |-> FALSE, before |-> SB]]
    /\ UNCHANGED <<text_location, scroll_offset, size, search_info, prompt_type,
                   value, last>>

\* Edit(Insert(character)), no prompt, as far as the Buffer goes
SaveInsertCharCall ==
    /\ prompt_type = "None"
    /\ \E at \in EditLocations :
         \E character \in EditChars :
            Edited("insert_char", buffer_insert_char(SB, character, at))

\* Edit(Delete) and Edit(DeleteBackward), no prompt, as far as the Buffer goes
SaveDeleteCall ==
    /\ prompt_type = "None"
    /\ \E at \in EditLocations : Edited("delete", buffer_delete(SB, at))

\* Edit(InsertNewline), no prompt, as far as the Buffer goes
SaveInsertNewlineCall ==
    /\ prompt_type = "None"
    /\ \E at \in EditLocations :
         Edited("insert_newline", buffer_insert_newline(SB, at))

\* Editor::save has returned: changed is reset when the lines were written
Saved(op, returned) ==
    /\ lines' = returned.buffer.lines
    /\ dirty' = returned.buffer.dirty
    /\ harness' = [harness EXCEPT
                      !.file_info = returned.buffer.file_info,
                      !.changed = IF returned.wrote /\ returned.ok THEN FALSE ELSE @,
                      !.message = returned.message,
                      !.call = [op |-> op, ok |-> returned.ok,
                                wrote |-> returned.wrote, before |-> SB]]
    /\ UNCHANGED <<text_location, scroll_offset, size, search_info, last>>

\* System(Save), no prompt: handle_save_command
SaveCmd ==
    /\ prompt_type = "None"
    /\ IF is_file_loaded(SB)
       THEN /\ \E io \in IOOutcomes(SB, SB.file_info) :
                 Saved("save", editor_save(SB, None, io))
            /\ UNCHANGED <<prompt_type, value>>
       ELSE /\ prompt_type' = "Save"
            /\ value' = <<>>
            /\ UNCHANGED <<lines, dirty, text_location, scroll_offset, size,
                           search_info, last, harness>>

\* Edit(edit_command) in the Save prompt
SavePromptEditCmd ==
    /\ prompt_type = "Save"
    /\ \E command \in {<<"Insert", c>> : c \in NameChars}
                       \cup {<<"DeleteBackward">>, <<"Delete">>} :
         /\ Len(command_bar_edit(value, command)) <= MaxNameLen
         /\ value' = command_bar_edit(value, command)
    /\ UNCHANGED <<lines, dirty, text_location, scroll_offset, size, search_info,
                   prompt_type, last, harness>>

\* System(Dismiss) in the Save prompt
SavePromptDismissCmd ==
    /\ prompt_type = "Save"
    /\ prompt_type' = "None"
    /\ value' = <<>>
    /\ harness' = [harness EXCEPT
                      !.message = "Save aborted.",
                      !.call = [op |-> "dismiss", ok |-> TRUE, wrote |-> FALSE,
                                before |-> SB]]
    /\ UNCHANGED <<lines, dirty, text_location, scroll_offset, size, search_info,
                   last>>

\* Edit(InsertNewline) in the Save prompt
SavePromptAcceptCmd ==
    /\ prompt_type = "Save"
    /\ \E io \in IOOutcomes(SB, FileInfo(value)) :
         Saved("save_as", editor_save(SB, Some(value), io))
    /\ prompt_type' = "None"
    /\ value' = <<>>

\* Quit, Search, Save and Move in the Save prompt
SavePromptIgnoredCmd ==
    /\ prompt_type = "Save"
    /\ UNCHANGED vars

NextSave ==
    \/ SaveInsertCharCall
    \/ SaveDeleteCall
    \/ SaveInsertNewlineCall
    \/ SaveCmd
    \/ SavePromptEditCmd
    \/ SavePromptDismissCmd
    \/ SavePromptAcceptCmd
    \/ SavePromptIgnoredCmd

SpecSave == InitSave /\ [][NextSave]_vars

----------------------------------------------------------------------------
(* Buffer::save called on a Buffer, with or without a file *)

InitBufferSave ==
    /\ lines \in DocsUpTo(StringsUpTo(EditChars, MaxLineLen), MaxLines)
    /\ dirty = FALSE
    /\ text_location = Location(0, 0)
    /\ scroll_offset = Position(0, 0)
    /\ size = Size(0, 0)
    /\ search_info = None
    /\ prompt_type = "None"
    /\ value = <<>>
    /\ last = [cmd |-> "Init", from |-> None, found |-> None, moved |-> FALSE]
    /\ \E file_info \in {None, FileInfo(<<"f">>)} :
         /\ file_info = None => lines = <<>>
         /\ harness = [fn |-> "buffer_save",
                       file_info |-> file_info,
                       changed |-> FALSE,
                       message |-> "",
                       call |-> [op |-> "load", ok |-> TRUE, wrote |-> FALSE,
                                 before |-> [lines |-> lines, dirty |-> FALSE,
                                             file_info |-> file_info]]]

\* Buffer::save has returned
BufferSaved(returned) ==
    /\ lines' = returned.buffer.lines
    /\ dirty' = returned.buffer.dirty
    /\ harness' = [harness EXCEPT
                      !.file_info = returned.buffer.file_info,
                      !.changed = IF returned.wrote /\ returned.ok THEN FALSE ELSE @,
                      !.call = [op |-> "save", ok |-> returned.ok,
                                wrote |-> returned.wrote, before |-> SB]]
    /\ UNCHANGED <<text_location, scroll_offset, size, search_info, prompt_type,
                   value, last>>

\* Buffer::save
BufferSaveCall ==
    \E io \in IOOutcomes(SB, SB.file_info) : BufferSaved(buffer_save(SB, io))

NextBufferSave ==
    \/ SaveInsertCharCall
    \/ SaveDeleteCall
    \/ SaveInsertNewlineCall
    \/ BufferSaveCall

SpecBufferSave == InitBufferSave /\ [][NextBufferSave]_vars

----------------------------------------------------------------------------
(* Line::search_forward and Line::search_backward called on a line *)

InitLineSearch ==
    /\ EditorIdle
    /\ \E line \in StringsUpTo(ScanChars, MaxScanLineLen) :
         \E query \in StringsUpTo(ScanChars, MaxScanQueryLen) :
            harness = [fn |-> "line_search", line |-> line, query |-> query,
                       direction |-> "None", from |-> 0, ret |-> None]

\* search_forward(query, from_grapheme_idx), also from past the end of the line
LineSearchForwardCall ==
    /\ harness.direction = "None"
    /\ \E from_grapheme_idx \in 0..(MaxScanLineLen + 1) :
         harness' = [harness EXCEPT
             !.direction = "Forward",
             !.from = from_grapheme_idx,
             !.ret = line_search_forward(harness.line, harness.query, from_grapheme_idx)]
    /\ UNCHANGED editorVars

\* search_backward(query, from_grapheme_idx), also from past the end of the line
LineSearchBackwardCall ==
    /\ harness.direction = "None"
    /\ \E from_grapheme_idx \in 0..(MaxScanLineLen + 1) :
         harness' = [harness EXCEPT
             !.direction = "Backward",
             !.from = from_grapheme_idx,
             !.ret = line_search_backward(harness.line, harness.query, from_grapheme_idx)]
    /\ UNCHANGED editorVars

NextLineSearch == LineSearchForwardCall \/ LineSearchBackwardCall

SpecLineSearch == InitLineSearch /\ [][NextLineSearch]_vars

----------------------------------------------------------------------------
(* Line::get_annotated_visible_substr called on a line *)

\* the text of the lines shown: a letter, a wide character, a combining
\* mark and a zero-width space
ShownChars == {"a", "W", "m", "zw"}

\* the columns of the ranges: up to one past the widest line
ShownCols == 0..(2 * MaxShownLen + 1)

InitShown ==
    /\ EditorIdle
    /\ \E line \in StringsUpTo(ShownChars, MaxShownLen) :
         harness = [fn |-> "shown", line |-> line, called |-> FALSE,
                    range |-> <<0, 0>>, query |-> None, selected_match |-> None,
                    tagged |-> <<>>, ret |-> [string |-> <<>>, annotations |-> <<>>]]

\* the harness after the call: tagged are the annotations after for_each
Shown(h, range_start, range_end, query, selected_match) ==
    [h EXCEPT !.called = TRUE,
              !.range = <<range_start, range_end>>,
              !.query = query,
              !.selected_match = selected_match,
              !.tagged = Tagged(h.line, query, selected_match).annotations,
              !.ret = get_annotated_visible_substr(h.line, range_start, range_end,
                                                   query, selected_match)]

\* get_annotated_visible_substr(range, None, None), as the View renders a
\* line outside search
ShowCall ==
    /\ ~harness.called
    /\ \E range_start \in ShownCols :
         \E range_end \in ShownCols :
            harness' = Shown(harness, range_start, range_end, None, None)
    /\ UNCHANGED editorVars

\* get_annotated_visible_substr(0..width, Some(query), selected_match), the
\* whole line in the range
ShowMatchesCall ==
    /\ ~harness.called
    /\ \E query \in StringsUpTo(ShownChars, MaxShownQueryLen) :
         \E selected_match \in {None} \cup {Some(g) : g \in 0..MaxShownLen} :
            harness' = Shown(harness, 0, Max(width(harness.line), 1), Some(query),
                             selected_match)
    /\ UNCHANGED editorVars

NextShown == ShowCall \/ ShowMatchesCall

SpecShown == InitShown /\ [][NextShown]_vars

(* View::handle_move_command and UIComponent::resize, called on a View that
   shows a document, with UIComponent::render between the calls *)

\* the documents moved in: the one of two lines "ab" and "cde", and one with a
\* wide character, a combining mark and an empty line
MoveDocs == {<<>>,
             <<<<"a", "b">>, <<"c", "d", "e">>>>,
             <<<<"W", "a", "m">>, <<>>, <<"b">>>>}

MoveSizes == {Size(h, w) : h \in 0..MaxMoveSide, w \in 0..MaxMoveSide}

\* the View of this specification
MV == [V EXCEPT !.needs_redraw = harness.needs_redraw]

\* what a call finds: the Location, the scroll offset and the redraw flag
Before(v) == [text_location |-> v.text_location,
              scroll_offset |-> v.scroll_offset,
              needs_redraw |-> v.needs_redraw]

\* the View becomes v by the call named command, made on the View before
Called(v, command, before) ==
    /\ text_location' = v.text_location
    /\ scroll_offset' = v.scroll_offset
    /\ size' = v.size
    /\ harness' = [fn |-> "move", needs_redraw |-> v.needs_redraw,
                   call |-> [command |-> command, before |-> Before(before)]]
    /\ UNCHANGED <<lines, dirty, search_info, prompt_type, value, last>>

InitMove ==
    /\ lines \in MoveDocs
    /\ dirty = FALSE
    /\ search_info = None
    /\ prompt_type = "None"
    /\ value = <<>>
    /\ last = [cmd |-> "Init", from |-> None, found |-> None, moved |-> FALSE]
    /\ \E new_size \in MoveSizes :
         LET loaded == [DefaultView EXCEPT !.buffer.lines = lines,
                                           !.needs_redraw = TRUE]
             v == resize(loaded, new_size)
         IN /\ text_location = v.text_location
            /\ scroll_offset = v.scroll_offset
            /\ size = v.size
            /\ harness = [fn |-> "move", needs_redraw |-> v.needs_redraw,
                          call |-> [command |-> "Init", before |-> Before(loaded)]]

MoveCall ==
    \E command \in Moves : Called(handle_move_command(MV, command), command, MV)

ResizeCall ==
    \E new_size \in MoveSizes : Called(resize(MV, new_size), "Resize", MV)

\* render of a View that needs it, the draw succeeding
RenderCall ==
    /\ harness.needs_redraw
    /\ Called([MV EXCEPT !.needs_redraw = FALSE], "Render", MV)

NextMove == MoveCall \/ ResizeCall \/ RenderCall

SpecMove == InitMove /\ [][NextMove]_vars

(* Buffer::search_forward and search_backward, View::search, search_next and
   search_prev, called with queries that are empty or not, on a View in search
   mode *)

QueryDocs == DocsUpTo(StringsUpTo({"a"}, MaxLineLen), MaxLines)

Queries == StringsUpTo({"a"}, MaxAskedLen)

\* the Locations searched from, those past the document and its lines too
QueryLocations ==
    {Location(l, g) : l \in 0..(MaxLines + 1), g \in 0..(MaxLineLen + 1)}

\* the call op was made with the query, from the Location from, on the View
\* before, and returned ret
Asked(op, query, from, before, ret) ==
    [fn |-> "query",
     call |-> [op |-> op, query |-> query, from |-> from, ret |-> ret,
               before |-> [text_location |-> before.text_location,
                           scroll_offset |-> before.scroll_offset]]]

\* the View becomes v
Searched(v) ==
    /\ text_location' = v.text_location
    /\ scroll_offset' = v.scroll_offset
    /\ search_info' = v.search_info
    /\ UNCHANGED <<lines, dirty, size, prompt_type, value, last>>

\* search mode entered with the cursor at any Location of the document,
\* scrolled into view
InitQuery ==
    /\ lines \in QueryDocs
    /\ dirty = FALSE
    /\ size = Size(MaxViewSide, MaxViewSide)
    /\ \E at \in QueryLocations :
         LET v == enter_search(scroll_text_location_into_view(
                      [DefaultView EXCEPT !.buffer.lines = lines,
                                          !.size = size,
                                          !.text_location = at]))
         IN /\ at.line_index <= Len(lines)
            /\ at.grapheme_index <= CountAt(v, at.line_index)
            /\ text_location = v.text_location
            /\ scroll_offset = v.scroll_offset
            /\ search_info = v.search_info
    /\ prompt_type = "Search"
    /\ value = <<>>
    /\ last = [cmd |-> "Init", from |-> None, found |-> None, moved |-> FALSE]
    /\ harness = Asked("enter_search", None, None, V, None)

\* Buffer::search_forward(query, from), the query the one of the View
BufferSearchForwardCall ==
    /\ IsSome(get_search_query(V))
    /\ \E from \in QueryLocations :
         harness' = Asked("search_forward", get_search_query(V), Some(from), V,
                          buffer_search_forward(V.buffer,
                                                Unwrap(get_search_query(V)), from))
    /\ Searched(V)

\* Buffer::search_backward(query, from), the query the one of the View
BufferSearchBackwardCall ==
    /\ IsSome(get_search_query(V))
    /\ \E from \in QueryLocations :
         harness' = Asked("search_backward", get_search_query(V), Some(from), V,
                          buffer_search_backward(V.buffer,
                                                 Unwrap(get_search_query(V)), from))
    /\ Searched(V)

ViewSearchCall ==
    \E query \in Queries :
        /\ harness' = Asked("search", Some(query), None, V, None)
        /\ Searched(view_search(V, query))

ViewSearchNextCall ==
    /\ harness' = Asked("search_next", get_search_query(V), None, V, None)
    /\ Searched(search_next(V))

ViewSearchPrevCall ==
    /\ harness' = Asked("search_prev", get_search_query(V), None, V, None)
    /\ Searched(search_prev(V))

NextQuery ==
    \/ BufferSearchForwardCall
    \/ BufferSearchBackwardCall
    \/ ViewSearchCall
    \/ ViewSearchNextCall
    \/ ViewSearchPrevCall

SpecQuery == InitQuery /\ [][NextQuery]_vars

(* Editor::process_command: the Editor as a record [view, terminal_size,
   file_info, prompt_type, value, quit_times, should_quit, message];
   quit_times is a u8.
   A command is <<"Move", m>>, <<"Edit", e>>, <<"System", s>> or
   <<"System", "Resize", size>>. *)

U8(n) == n % 256

update_message(e, new_message) == [e EXCEPT !.message = new_message]

\* handle_quit_command that quits when quit_times has reached QUIT_TIMES
handle_quit_command_one_late(e) ==
    IF ~e.view.buffer.dirty \/ e.quit_times = QUIT_TIMES
    THEN [e EXCEPT !.should_quit = TRUE]
    ELSE IF e.view.buffer.dirty
    THEN [update_message(e, <<"WARNING! File has unsaved changes.",
                              U8(QUIT_TIMES - e.quit_times - 1)>>)
          EXCEPT !.quit_times = U8(e.quit_times + 1)]
    ELSE e

handle_quit_command(e) ==
    IF ~e.view.buffer.dirty \/ U8(e.quit_times + 1) = QUIT_TIMES
    THEN [e EXCEPT !.should_quit = TRUE]
    ELSE IF e.view.buffer.dirty
    THEN [update_message(e, <<"WARNING! File has unsaved changes.",
                              U8(QUIT_TIMES - e.quit_times - 1)>>)
          EXCEPT !.quit_times = U8(e.quit_times + 1)]
    ELSE e

\* reset_quit_times that leaves the count
reset_quit_times_kept(e) == e

reset_quit_times(e) ==
    IF e.quit_times > 0
    THEN update_message([e EXCEPT !.quit_times = 0], <<"">>)
    ELSE e

\* set_prompt that opens the Search prompt without entering search
set_prompt_only(e, new_prompt_type) ==
    [e EXCEPT !.value = <<>>, !.prompt_type = new_prompt_type]

set_prompt(e, new_prompt_type) ==
    [(IF new_prompt_type = "Search"
      THEN [e EXCEPT !.view = enter_search(e.view)]
      ELSE e)
     EXCEPT !.value = <<>>, !.prompt_type = new_prompt_type]

\* Editor::save
Editor_save(e, file_name, io) ==
    LET returned == editor_save([lines |-> e.view.buffer.lines,
                                 dirty |-> e.view.buffer.dirty,
                                 file_info |-> e.file_info],
                                file_name, io)
    IN [e EXCEPT !.view.buffer.lines = returned.buffer.lines,
                 !.view.buffer.dirty = returned.buffer.dirty,
                 !.file_info = returned.buffer.file_info,
                 !.message = <<returned.message>>]

handle_save_command(e, io) ==
    IF IsSome(e.file_info) THEN Editor_save(e, None, io)
    ELSE set_prompt(e, "Save")

\* process_command_during_save that hands the Edit commands to the View
process_command_during_save_editing(e, command, io) ==
    CASE command = <<"System", "Dismiss">> ->
            update_message(set_prompt(e, "None"), <<"Save aborted.">>)
      [] command = <<"Edit", <<"InsertNewline">>>> ->
            set_prompt(Editor_save(e, Some(e.value), io), "None")
      [] command[1] = "Edit" ->
            [e EXCEPT !.view = handle_edit_command(e.view, command[2])]
      [] OTHER -> e

process_command_during_save(e, command, io) ==
    CASE command = <<"System", "Dismiss">> ->
            update_message(set_prompt(e, "None"), <<"Save aborted.">>)
      [] command = <<"Edit", <<"InsertNewline">>>> ->
            set_prompt(Editor_save(e, Some(e.value), io), "None")
      [] command[1] = "Edit" ->
            [e EXCEPT !.value = command_bar_edit(e.value, command[2])]
      [] OTHER -> e

process_command_during_search(e, command) ==
    CASE command = <<"System", "Dismiss">> ->
            [set_prompt(e, "None") EXCEPT !.view = dismiss_search(e.view)]
      [] command = <<"Edit", <<"InsertNewline">>>> ->
            [set_prompt(e, "None") EXCEPT !.view = exit_search(e.view)]
      [] command[1] = "Edit" ->
            [e EXCEPT !.value = command_bar_edit(e.value, command[2]),
                      !.view = view_search(e.view,
                                           command_bar_edit(e.value, command[2]))]
      [] command \in {<<"Move", "Right">>, <<"Move", "Down">>} ->
            [e EXCEPT !.view = search_next(e.view)]
      [] command \in {<<"Move", "Up">>, <<"Move", "Left">>} ->
            [e EXCEPT !.view = search_prev(e.view)]
      [] OTHER -> e

\* the match of process_command_no_prompt, after the Quit command is
\* handled and the Quit attempts of the others reset
NoPromptMatch(e, command, io) ==
    CASE command = <<"System", "Search">> -> set_prompt(e, "Search")
      [] command = <<"System", "Save">> -> handle_save_command(e, io)
      [] command[1] = "Edit" ->
            [e EXCEPT !.view = handle_edit_command(e.view, command[2])]
      [] command[1] = "Move" ->
            [e EXCEPT !.view = handle_move_command(e.view, command[2])]
      [] OTHER -> e

process_command_no_prompt(e, command, io) ==
    IF command = <<"System", "Quit">> THEN handle_quit_command(e)
    ELSE NoPromptMatch(reset_quit_times(e), command, io)

process_command(e, command, io) ==
    IF command[1] = "System" /\ command[2] = "Resize"
    THEN [e EXCEPT !.terminal_size = command[3],
                   !.view = handle_resize_command(e.view, command[3])]
    ELSE CASE e.prompt_type = "Search" -> process_command_during_search(e, command)
           [] e.prompt_type = "Save" -> process_command_during_save(e, command, io)
           [] e.prompt_type = "None" -> process_command_no_prompt(e, command, io)

\* the commands typed: one letter, the keys that edit, move and the controls
TypedEdits == {<<"Insert", "a">>, <<"Delete">>, <<"DeleteBackward">>,
               <<"InsertNewline">>}

TypedCommands ==
    {<<"Move", m>> : m \in Moves}
    \cup {<<"Edit", c>> : c \in TypedEdits}
    \cup {<<"System", c>> : c \in {"Quit", "Search", "Save", "Dismiss"}}

TypedSizes == {Size(2, 1), Size(3, 1)}

\* the Editor of the current state
E == [view |-> V,
      terminal_size |-> harness.terminal_size,
      file_info |-> harness.file_info,
      prompt_type |-> prompt_type,
      value |-> value,
      quit_times |-> harness.quit_times,
      should_quit |-> harness.should_quit,
      message |-> harness.message]

\* the Quit commands in a row that this one makes: Quit commands processed
\* with no prompt, no other command than Resize between them
Streak(command) ==
    IF command[1] = "System" /\ command[2] = "Resize" THEN harness.streak
    ELSE IF command = <<"System", "Quit">> /\ prompt_type = "None"
    THEN harness.streak + 1
    ELSE 0

\* the Editor becomes e by the command, within the bounds of the model
Processed(e, command) ==
    /\ Len(e.view.buffer.lines) <= MaxTypedLines
    /\ \A i \in 1..Len(e.view.buffer.lines) :
          Len(e.view.buffer.lines[i]) <= MaxTypedLen
    /\ Len(e.value) <= MaxTypedLen
    /\ lines' = e.view.buffer.lines
    /\ dirty' = e.view.buffer.dirty
    /\ text_location' = e.view.text_location
    /\ scroll_offset' = e.view.scroll_offset
    /\ size' = e.view.size
    /\ search_info' = e.view.search_info
    /\ prompt_type' = e.prompt_type
    /\ value' = e.value
    /\ harness' = [fn |-> "commands",
                   terminal_size |-> e.terminal_size,
                   file_info |-> e.file_info,
                   quit_times |-> e.quit_times,
                   should_quit |-> e.should_quit,
                   message |-> e.message,
                   streak |-> Streak(command),
                   command |-> command,
                   before |-> [prompt_type |-> prompt_type, dirty |-> dirty]]
    /\ UNCHANGED last

\* Editor::new, with no file or with a file of one line
InitCommands ==
    /\ dirty = FALSE
    /\ search_info = None
    /\ prompt_type = "None"
    /\ value = <<>>
    /\ last = [cmd |-> "Init", from |-> None, found |-> None, moved |-> FALSE]
    /\ \E terminal_size \in TypedSizes, file_info \in {None, FileInfo(<<"a">>)} :
         /\ size = handle_resize_command(DefaultView, terminal_size).size
         /\ scroll_offset = handle_resize_command(DefaultView, terminal_size).scroll_offset
         /\ text_location = handle_resize_command(DefaultView, terminal_size).text_location
         /\ lines \in IF IsSome(file_info) THEN {<<<<"a">>>>} ELSE {<<>>}
         /\ harness = [fn |-> "commands",
                       terminal_size |-> terminal_size,
                       file_info |-> file_info,
                       quit_times |-> 0,
                       should_quit |-> FALSE,
                       message |-> <<"HELP">>,
                       streak |-> 0,
                       command |-> <<"System", "Init">>,
                       before |-> [prompt_type |-> "None", dirty |-> FALSE]]

\* the answers of the file system a command can meet
Answers(command) ==
    IF /\ prompt_type = "None"
       /\ command = <<"System", "Save">>
       /\ IsSome(harness.file_info)
    THEN IOOutcomes(V.buffer, harness.file_info)
    ELSE IF prompt_type = "Save" /\ command = <<"Edit", <<"InsertNewline">>>>
    THEN IOOutcomes(V.buffer, FileInfo(value))
    ELSE {None}

\* the loop of Editor::run reads an event unless should_quit
ResizeCommand ==
    /\ ~harness.should_quit
    /\ \E terminal_size \in TypedSizes :
         Processed(process_command(E, <<"System", "Resize", terminal_size>>, None),
                   <<"System", "Resize", terminal_size>>)

CommandNoPrompt ==
    /\ ~harness.should_quit
    /\ prompt_type = "None"
    /\ \E command \in TypedCommands :
         \E io \in Answers(command) :
            Processed(process_command(E, command, io), command)

CommandDuringSearch ==
    /\ ~harness.should_quit
    /\ prompt_type = "Search"
    /\ \E command \in TypedCommands :
         Processed(process_command(E, command, None), command)

CommandDuringSave ==
    /\ ~harness.should_quit
    /\ prompt_type = "Save"
    /\ \E command \in TypedCommands :
         \E io \in Answers(command) :
            Processed(process_command(E, command, io), command)

NextCommands ==
    \/ ResizeCommand
    \/ CommandNoPrompt
    \/ CommandDuringSearch
    \/ CommandDuringSave

SpecCommands == InitCommands /\ [][NextCommands]_vars

(* View::search, search_next and search_prev on a document of one line, and
   what View::draw then hands to get_annotated_visible_substr *)

DrawnChars == {"a", "b"}

\* the View after the search: found is the match of that search, if any
Selecting(v, op) ==
    /\ text_location' = v.text_location
    /\ scroll_offset' = v.scroll_offset
    /\ search_info' = v.search_info
    /\ harness' = [fn |-> "drawn", op |-> op, found |-> v.found]
    /\ UNCHANGED <<lines, dirty, size, prompt_type, value, last>>

\* search mode entered at the start of the line
InitDrawn ==
    /\ \E line \in StringsUpTo(DrawnChars, MaxDrawnLen) : lines = <<line>>
    /\ dirty = FALSE
    /\ text_location = Location(0, 0)
    /\ scroll_offset = Position(0, 0)
    /\ size = Size(1, MaxDrawnLen + 1)
    /\ search_info = enter_search(DefaultView).search_info
    /\ prompt_type = "Search"
    /\ value = <<>>
    /\ last = [cmd |-> "Init", from |-> None, found |-> None, moved |-> FALSE]
    /\ harness = [fn |-> "drawn", op |-> "enter_search", found |-> None]

DrawnSearchCall ==
    \E query \in StringsUpTo(DrawnChars, MaxDrawnQueryLen) :
       Selecting(view_search(V, query), "search")

DrawnSearchNextCall == Selecting(search_next(V), "search_next")

DrawnSearchPrevCall == Selecting(search_prev(V), "search_prev")

NextDrawn == DrawnSearchCall \/ DrawnSearchNextCall \/ DrawnSearchPrevCall

SpecDrawn == InitDrawn /\ [][NextDrawn]_vars

(* View::search_next, then View::search_prev, from a match of View::search *)

\* the lines: letters and combining marks, and a line in which the clusters
\* of the query "ama" start inside a byte-level occurrence of it
InverseLines ==
    StringsUpTo(ScanChars, MaxInverseLen) \cup {<<"a", "m", "a", "m", "a">>}

InverseQueries == {<<"a">>, <<"a", "a">>, <<"a", "m">>, <<"a", "m", "a">>}

\* the View after the call: step counts the calls made
Stepped(v) ==
    /\ text_location' = v.text_location
    /\ scroll_offset' = v.scroll_offset
    /\ search_info' = v.search_info
    /\ harness' = [harness EXCEPT !.step = @ + 1]
    /\ UNCHANGED <<lines, dirty, size, prompt_type, value, last>>

\* search mode entered somewhere in the document, and View::search called
\* with a query found from there: the cursor is on a match
InitInverse ==
    /\ lines \in DocsUpTo(InverseLines, MaxInverseLines)
    /\ dirty = FALSE
    /\ size = Size(MaxViewSide, MaxViewSide)
    /\ prompt_type = "Search"
    /\ value \in InverseQueries
    /\ last = [cmd |-> "Init", from |-> None, found |-> None, moved |-> FALSE]
    /\ \E line_index \in 0..MaxInverseLines, grapheme_index \in 0..(MaxInverseLen + 2) :
         LET entered == enter_search(scroll_text_location_into_view(
                            [DefaultView EXCEPT
                                !.buffer.lines = lines,
                                !.size = size,
                                !.text_location = Location(line_index, grapheme_index)]))
             v == view_search(entered, value)
         IN /\ line_index <= Len(lines)
            /\ grapheme_index <= CountAt(entered, line_index)
            /\ IsSome(v.found)
            /\ text_location = v.text_location
            /\ scroll_offset = v.scroll_offset
            /\ search_info = v.search_info
            /\ harness = [fn |-> "inverse", start |-> v.text_location, step |-> 0]

InverseNextCall ==
    /\ harness.step = 0
    /\ Stepped(search_next(V))

InversePrevCall ==
    /\ harness.step = 1
    /\ Stepped(search_prev(V))

NextInverse == InverseNextCall \/ InversePrevCall

SpecInverse == InitInverse /\ [][NextInverse]_vars

(* Editor::refresh_screen: the caret handed to Terminal::move_caret_to,
   None when the refresh returns before drawing *)

MaxCaretLines == 2
MaxCaretLen == 2

\* View::caret_position that hands out the position in the document
caret_position_in_document(v) == text_location_to_position(v)

caret_position(v) ==
    Position(SatSub(text_location_to_position(v).row, v.scroll_offset.row),
             SatSub(text_location_to_position(v).col, v.scroll_offset.col))

\* the bytes of the prompt that set_prompt gives the command bar
PromptLen(type) ==
    CASE type = "Save" -> Len(<<"S", "a", "v", "e", " ", "a", "s", ":", " ">>)
      [] type = "Search" ->
            Len(<<"S", "e", "a", "r", "c", "h", " ",
                  "(", "E", "s", "c", " ", "t", "o", " ",
                  "c", "a", "n", "c", "e", "l", ",", " ",
                  "A", "r", "r", "o", "w", "s", " ", "t", "o", " ",
                  "n", "a", "v", "i", "g", "a", "t", "e", ")", ":", " ">>)
      [] OTHER -> 0

\* CommandBar::caret_position_col; the bar is as wide as the terminal
caret_position_col(e) ==
    Min(PromptLen(e.prompt_type) + grapheme_count(e.value),
        e.terminal_size.width)

refresh_screen(e) ==
    IF e.terminal_size.height = 0 \/ e.terminal_size.width = 0 THEN None
    ELSE IF e.prompt_type # "None"
    THEN Some(Position(SatSub(e.terminal_size.height, 1), caret_position_col(e)))
    ELSE Some(caret_position(e.view))

CaretEdits == {<<"Insert", "a">>, <<"Delete">>, <<"DeleteBackward">>,
               <<"InsertNewline">>}

CaretCommands ==
    {<<"Move", m>> : m \in Moves}
    \cup {<<"Edit", c>> : c \in CaretEdits}
    \cup {<<"System", c>> : c \in {"Search", "Save", "Dismiss"}}

CaretSizes == {Size(1, 1), Size(3, 2), Size(4, 10)}

\* the Editor becomes e by the command and the screen is refreshed
Refreshed(e, command) ==
    /\ Len(e.view.buffer.lines) <= MaxCaretLines
    /\ \A i \in 1..Len(e.view.buffer.lines) :
          Len(e.view.buffer.lines[i]) <= MaxCaretLen
    /\ Len(e.value) <= MaxCaretLen
    /\ lines' = e.view.buffer.lines
    /\ dirty' = e.view.buffer.dirty
    /\ text_location' = e.view.text_location
    /\ scroll_offset' = e.view.scroll_offset
    /\ size' = e.view.size
    /\ search_info' = e.view.search_info
    /\ prompt_type' = e.prompt_type
    /\ value' = e.value
    /\ harness' = [fn |-> "refresh",
                   terminal_size |-> e.terminal_size,
                   file_info |-> e.file_info,
                   quit_times |-> e.quit_times,
                   should_quit |-> e.should_quit,
                   message |-> e.message,
                   caret |-> refresh_screen(e)]
    /\ UNCHANGED last

\* Editor::new with no file, and the first refresh of Editor::run
InitRefresh ==
    /\ dirty = FALSE
    /\ search_info = None
    /\ prompt_type = "None"
    /\ value = <<>>
    /\ lines = <<>>
    /\ last = [cmd |-> "Init", from |-> None, found |-> None, moved |-> FALSE]
    /\ \E terminal_size \in CaretSizes :
         /\ size = handle_resize_command(DefaultView, terminal_size).size
         /\ scroll_offset = handle_resize_command(DefaultView, terminal_size).scroll_offset
         /\ text_location = handle_resize_command(DefaultView, terminal_size).text_location
         /\ harness = [fn |-> "refresh",
                       terminal_size |-> terminal_size,
                       file_info |-> None,
                       quit_times |-> 0,
                       should_quit |-> FALSE,
                       message |-> <<"HELP">>,
                       caret |-> refresh_screen(
                           [view |-> handle_resize_command(DefaultView, terminal_size),
                            terminal_size |-> terminal_size,
                            prompt_type |-> "None",
                            value |-> <<>>])]

RefreshAfterResize ==
    \E terminal_size \in CaretSizes :
       Refreshed(process_command(E, <<"System", "Resize", terminal_size>>, None),
                 <<"System", "Resize", terminal_size>>)

RefreshAfterCommand ==
    /\ prompt_type = "None"
    /\ \E command \in CaretCommands :
         Refreshed(process_command(E, command, None), command)

RefreshDuringSearch ==
    /\ prompt_type = "Search"
    /\ \E command \in CaretCommands :
         Refreshed(process_command(E, command, None), command)

\* in this harness File::create fails whenever a file is to be written
RefreshDuringSave ==
    /\ prompt_type = "Save"
    /\ \E command \in CaretCommands :
         Refreshed(process_command(E, command, None), command)

NextRefresh ==
    \/ RefreshAfterResize
    \/ RefreshAfterCommand
    \/ RefreshDuringSearch
    \/ RefreshDuringSave

SpecRefresh == InitRefresh /\ [][NextRefresh]_vars

(* Buffer::save_to_file and Buffer::load: the file is the string of its code
   points, "\n" the line feed and "\r" the carriage return *)

MaxFileLines == 3
MaxFileLen == 2

\* save_to_file: writeln! writes the line, then a line feed
RECURSIVE save_to_file_contents(_)
save_to_file_contents(ls) ==
    IF ls = <<>> THEN <<>>
    ELSE Head(ls) \o <<"\n">> \o save_to_file_contents(Tail(ls))

\* the string up to and with its first line feed, all of it when it has none
RECURSIVE FirstPiece(_)
FirstPiece(s) ==
    IF s = <<>> THEN <<>>
    ELSE IF Head(s) = "\n" THEN <<"\n">>
    ELSE <<Head(s)>> \o FirstPiece(Tail(s))

\* str::split_inclusive('\n'): no piece for the empty string
RECURSIVE SplitInclusive(_)
SplitInclusive(s) ==
    IF s = <<>> THEN <<>>
    ELSE <<FirstPiece(s)>>
         \o SplitInclusive(SubSeq(s, Len(FirstPiece(s)) + 1, Len(s)))

StripSuffix(s, c) ==
    IF s # <<>> /\ s[Len(s)] = c THEN Some(SubSeq(s, 1, Len(s) - 1)) ELSE None

\* a piece without its line feed, and without the carriage return before it
StripLineEnding(piece) ==
    IF ~IsSome(StripSuffix(piece, "\n")) THEN piece
    ELSE IF ~IsSome(StripSuffix(Unwrap(StripSuffix(piece, "\n")), "\r"))
    THEN Unwrap(StripSuffix(piece, "\n"))
    ELSE Unwrap(StripSuffix(Unwrap(StripSuffix(piece, "\n")), "\r"))

\* str::split('\n'): the text after the last line feed is a line too
RECURSIVE str_split(_)
str_split(contents) ==
    IF FirstPiece(contents) = contents /\ ~IsSome(StripSuffix(contents, "\n"))
    THEN <<contents>>
    ELSE <<StripLineEnding(FirstPiece(contents))>>
         \o str_split(SubSeq(contents, Len(FirstPiece(contents)) + 1,
                             Len(contents)))

\* str::lines
str_lines(contents) ==
    [i \in 1..Len(SplitInclusive(contents)) |->
        StripLineEnding(SplitInclusive(contents)[i])]

\* Buffer::load that takes the text after the last line feed for a line
buffer_load_splitting(contents) == str_split(contents)

\* Buffer::load: the lines of the Buffer it returns
buffer_load(contents) == str_lines(contents)

FileChars == {"a", "\n", "\r"}

FileDocs ==
    UNION {[1..n -> StringsUpTo(FileChars, MaxFileLen)] : n \in 0..MaxFileLines}

\* a Buffer of any lines, not yet saved
InitFile ==
    /\ lines \in FileDocs
    /\ dirty = TRUE
    /\ text_location = Location(0, 0)
    /\ scroll_offset = Position(0, 0)
    /\ size = Size(1, 1)
    /\ search_info = None
    /\ prompt_type = "None"
    /\ value = <<>>
    /\ last = [cmd |-> "Init", from |-> None, found |-> None, moved |-> FALSE]
    /\ harness = [fn |-> "file", saved |-> None, file |-> None, loaded |-> FALSE]

SaveToFileCall ==
    /\ harness.fn = "file"
    /\ ~IsSome(harness.file)
    /\ harness' = [harness EXCEPT !.saved = Some(lines),
                                  !.file = Some(save_to_file_contents(lines))]
    /\ UNCHANGED <<lines, dirty, text_location, scroll_offset, size,
                   search_info, prompt_type, value, last>>

LoadCall ==
    /\ harness.fn = "file"
    /\ IsSome(harness.file)
    /\ ~harness.loaded
    /\ lines' = buffer_load(Unwrap(harness.file))
    /\ dirty' = FALSE
    /\ harness' = [harness EXCEPT !.loaded = TRUE]
    /\ UNCHANGED <<text_location, scroll_offset, size, search_info,
                   prompt_type, value, last>>

NextFile == SaveToFileCall \/ LoadCall

SpecFile == InitFile /\ [][NextFile]_vars

----------------------------------------------------------------------------
(* Properties *)

\* pos lies in the window of size sz scrolled to offset
InWindow(pos, offset, sz) ==
    /\ offset.row <= pos.row
    /\ pos.row < offset.row + sz.height
    /\ offset.col <= pos.col
    /\ pos.col < offset.col + sz.width

\* the rendered row and column of the cursor
CursorPosition == text_location_to_position(V)

\* C1, as amended: after every Move and every Resize command the rendered
\* row of the cursor lies in [scroll_offset.row, scroll_offset.row + height)
\* and its rendered column in [scroll_offset.col, scroll_offset.col + width),
\* for every window size with height >= 1 and width >= 1.
ViewportContainment ==
    (last.cmd \in {"Move", "Resize"} /\ size.height >= 1 /\ size.width >= 1)
        => InWindow(CursorPosition, scroll_offset, size)

\* C1, as stated: the same for every window size a Resize can set, the
\* sizes with height 0 or width 0 included.
ViewportContainmentAnySize ==
    last.cmd \in {"Move", "Resize"} => InWindow(CursorPosition, scroll_offset, size)

\* C1: a Move has scrolled a window of one cell down and to the right
ViewportContainmentWitness ==
    /\ last.cmd = "Move"
    /\ size = Size(1, 1)
    /\ scroll_offset.row > 0
    /\ scroll_offset.col > 0

\* the rendered position of the Location snapshotted when search mode was entered
PrevPosition ==
    text_location_to_position(
        [V EXCEPT !.text_location = Unwrap(search_info).prev_location])

\* C2, as amended: whatever was processed since search mode was entered,
\* Dismiss leaves text_location equal to the snapshotted Location and exits
\* search mode (search_info None, no prompt); scroll_offset equals the
\* snapshotted offset whenever the restored cursor is visible in the current
\* window at that offset, and otherwise is scrolled so that the cursor is
\* visible (in a window with height >= 1 and width >= 1).
DismissRestoresLocation ==
    [][(prompt_type = "Search" /\ last'.cmd = "Dismiss") =>
          /\ text_location' = Unwrap(search_info).prev_location
          /\ search_info' = None
          /\ prompt_type' = "None"
          /\ InWindow(PrevPosition, Unwrap(search_info).prev_scroll_offset, size)
                => scroll_offset' = Unwrap(search_info).prev_scroll_offset
          /\ (size.height >= 1 /\ size.width >= 1)
                => InWindow(PrevPosition, scroll_offset', size')]_vars

\* C2, as stated: Dismiss leaves text_location and scroll_offset equal to
\* their values when search mode was entered, and exits search mode.
DismissRestoresExactly ==
    [][(prompt_type = "Search" /\ last'.cmd = "Dismiss") =>
          /\ text_location' = Unwrap(search_info).prev_location
          /\ scroll_offset' = Unwrap(search_info).prev_scroll_offset
          /\ search_info' = None
          /\ prompt_type' = "None"]_vars

\* C2: a Dismiss has moved the cursor or the window back
DismissWitness == last.cmd = "Dismiss" /\ last.moved

\* C3: in every reachable state text_location.line_index <= the height of
\* the document and text_location.grapheme_index <= the grapheme count of
\* that line (0 when line_index = height).
LocationValidity ==
    /\ text_location.line_index <= Len(lines)
    /\ text_location.grapheme_index <= CountAt(V, text_location.line_index)

\* C3: an Edit has left the cursor on the line past the end of the document
LocationValidityWitness ==
    /\ last.cmd = "Edit"
    /\ Len(lines) > 0
    /\ text_location.line_index = Len(lines)

\* C9, as stated: search_next starts the forward search at the current line,
\* grapheme_index + max(number of graphemes of the query, 1); search_prev
\* starts the backward search at the current Location.
SearchNextSkipsMatch ==
    [][prompt_type = "Search" =>
          /\ last'.cmd = "SearchNext" =>
                last'.from = Some(Location(
                    text_location.line_index,
                    text_location.grapheme_index
                    + Max(IF IsSome(get_search_query(V))
                          THEN grapheme_count(Unwrap(get_search_query(V)))
                          ELSE 0,
                          1)))
          /\ last'.cmd = "SearchPrev" => last'.from = Some(text_location)]_vars

\* C10, as amended: every Edit command applied to the query in the search
\* prompt re-runs the forward search from the Location of the cursor at that
\* moment, which earlier matches and next/previous navigation have moved.
QueryEditSearchesFromCursor ==
    [][(prompt_type = "Search" /\ last'.cmd = "SearchEdit") =>
          last'.from = Some(text_location)]_vars

\* C10, as stated: every Edit command applied to the query re-runs the
\* forward search from the Location captured when search mode was entered.
QueryEditSearchesFromPrevLocation ==
    [][(prompt_type = "Search" /\ last'.cmd = "SearchEdit") =>
          last'.from = Some(Unwrap(search_info).prev_location)]_vars

\* C10: a query edit has searched from somewhere else than prev_location
QueryEditWitness ==
    /\ last.cmd = "SearchEdit"
    /\ IsSome(search_info)
    /\ last.from # Some(Unwrap(search_info).prev_location)

\* the text an annotation selects in a string
Selected(string, annotation) ==
    SubSeq(string, annotation.start_byte_idx + 1, annotation.end_byte_idx)

\* C4: when all annotations satisfy start < end <= len, after
\* replace(start, end, new_text) with start <= end every remaining annotation
\* satisfies 0 <= start < end <= the length of the resulting string.
AnnotationsValidAfterReplace ==
    (/\ harness.fn = "replace"
     /\ IsSome(harness.after)
     /\ \A i \in 1..Len(harness.before.annotations) :
           /\ harness.before.annotations[i].start_byte_idx
                 < harness.before.annotations[i].end_byte_idx
           /\ harness.before.annotations[i].end_byte_idx <= Len(harness.before.string))
    => \A i \in 1..Len(Unwrap(harness.after).annotations) :
          /\ 0 <= Unwrap(harness.after).annotations[i].start_byte_idx
          /\ Unwrap(harness.after).annotations[i].start_byte_idx
                < Unwrap(harness.after).annotations[i].end_byte_idx
          /\ Unwrap(harness.after).annotations[i].end_byte_idx
                <= Len(Unwrap(harness.after).string)

\* C4: a replace has removed one of two annotations and moved the other
AnnotationsValidWitness ==
    /\ harness.fn = "replace"
    /\ IsSome(harness.after)
    /\ Len(harness.before.annotations) = 2
    /\ Len(Unwrap(harness.after).annotations) = 1
    /\ \A i \in 1..2 :
          Unwrap(harness.after).annotations[1] # harness.before.annotations[i]

\* C5, as stated: after replace(start, end, new_text) each annotation that
\* ended at or before start, or began at or after end, still exists and
\* selects the text it selected before.
AnnotationsOutsideKeepText ==
    (harness.fn = "replace" /\ IsSome(harness.after)) =>
        \A i \in 1..Len(harness.before.annotations) :
           (\/ harness.before.annotations[i].end_byte_idx
                  <= Unwrap(harness.args).start_byte_idx
            \/ harness.before.annotations[i].start_byte_idx
                  >= Unwrap(harness.args).end_byte_idx)
           => \E j \in 1..Len(Unwrap(harness.after).annotations) :
                 Selected(Unwrap(harness.after).string,
                          Unwrap(harness.after).annotations[j])
                 = Selected(harness.before.string, harness.before.annotations[i])

\* the clusters of the line from grapheme g on spell the query
OccursAt(line, query, g) ==
    /\ g + grapheme_count(query) <= grapheme_count(line)
    /\ Concat([i \in 1..grapheme_count(query) |->
                  str_to_fragments(line)[g + i].grapheme]) = query

\* the Locations of a document where the query occurs
Occurrences(doc, query) ==
    {loc \in [line_index : 0..(Len(doc) - 1), grapheme_index : 0..MaxScanLineLen] :
        OccursAt(doc[loc.line_index + 1], query, loc.grapheme_index)}

\* which visit of the cyclic scan from `from` reaches loc: the starting line
\* from from.grapheme_index (0), the following lines with wrap-around
\* (1 .. n - 1), the starting line from its beginning (n)
VisitOf(loc, from, n) ==
    IF loc.line_index = from.line_index % n
    THEN IF loc.grapheme_index >= from.grapheme_index THEN 0 ELSE n
    ELSE (loc.line_index + n - (from.line_index % n)) % n

ScannedBefore(a, b, from, n) ==
    \/ VisitOf(a, from, n) < VisitOf(b, from, n)
    \/ /\ VisitOf(a, from, n) = VisitOf(b, from, n)
       /\ a.grapheme_index < b.grapheme_index

\* C6, as stated: search_forward(query, from) with a non-empty query and a
\* valid from returns a match whenever some line contains the query, and
\* the match returned is the first one in cyclic scan order.
SearchForwardCompleteOrdered ==
    (/\ harness.fn = "search_forward"
     /\ IsSome(harness.from)
     /\ harness.query # <<>>
     /\ Occurrences(harness.doc, harness.query) # {})
    => /\ IsSome(harness.ret)
       /\ Unwrap(harness.ret) \in Occurrences(harness.doc, harness.query)
       /\ \A o \in Occurrences(harness.doc, harness.query) :
             ~ScannedBefore(o, Unwrap(harness.ret), Unwrap(harness.from),
                            Len(harness.doc))

\* every line of the document has exactly one occurrence of the query
OneOccurrencePerLine ==
    \A l \in 1..Len(lines) :
       Cardinality({g \in 0..Len(lines[l]) : OccursAt(lines[l], value, g)}) = 1

\* C7, as stated: when each of the N lines has exactly one occurrence of the
\* query, search_next repeated from the first match moves the cursor through
\* the N occurrences in cyclic line order, each visited once before any is
\* visited again.
SearchNextVisitsAll ==
    (harness.fn = "search_next" /\ OneOccurrencePerLine) =>
        \A i \in 1..Min(Len(harness.visited), Len(lines)) :
           /\ harness.visited[i].line_index
                 = (harness.visited[1].line_index + i - 1) % Len(lines)
           /\ OccursAt(lines[harness.visited[i].line_index + 1], value,
                       harness.visited[i].grapheme_index)

\* the occurrences of the query in the document
OccurrencesInDocument == Occurrences(lines, value)

SearchMoveContainment ==
    (/\ last.cmd \in {"SearchEdit", "SearchNext", "SearchPrev"}
     /\ IsSome(last.found)
     /\ size.height >= 1
     /\ size.width >= 1)
    => InWindow(CursorPosition, scroll_offset, size)

----------------------------------------------------------------------------
(* The parts of an iterated AnnotatedString *)

\* the strings of the parts yielded so far
PartStrings == [k \in 1..Len(harness.parts) |-> harness.parts[k].string]

\* the byte index at which the k-th part yielded starts
PartOffset(k) == Len(Concat(SubSeq(PartStrings, 1, k - 1)))

\* the annotation type of the last-added annotation whose range contains
\* the byte, None when no range contains it
EffectiveType(annotations, byte_idx) ==
    LET S == {i \in 1..Len(annotations) :
                 /\ annotations[i].start_byte_idx <= byte_idx
                 /\ byte_idx < annotations[i].end_byte_idx}
    IN IF S = {} THEN None
       ELSE Some(annotations[CHOOSE i \in S : \A j \in S : j <= i].annotation_type)

\* C12, as stated: every byte of every part the iterator yields carries the
\* type of the last-added annotation whose range contains the byte, or no
\* annotation when none contains it, also when a later-added annotation
\* begins inside an earlier one.
PartsCarryEffectiveAnnotation ==
    harness.fn = "iterate" =>
        \A k \in 1..Len(harness.parts) :
            \A j \in 1..Len(harness.parts[k].string) :
                harness.parts[k].annotation_type =
                    EffectiveType(harness.it.annotated_string.annotations,
                                  PartOffset(k) + j - 1)

PartsMaximal ==
    harness.fn = "iterate" =>
        \A k \in 1..(Len(harness.parts) - 1) :
            harness.parts[k].annotation_type # harness.parts[k + 1].annotation_type

----------------------------------------------------------------------------
(* Buffer::delete, Buffer::insert_newline, Line::split and Line::append *)

\* the last call made on the Buffer
LastCall == harness.calls[Len(harness.calls)]

\* the line without its cluster g
WithoutCluster(line, g) ==
    LET fs == str_to_fragments(line)
    IN Concat([i \in 1..(Len(fs) - 1) |->
                  fs[IF i <= g THEN i ELSE i + 1].grapheme])

\* after is before with line l + 1 appended to line l and removed
Merged(before, after, l) ==
    /\ Len(after) = Len(before) - 1
    /\ after[l + 1] = before[l + 1] \o before[l + 2]
    /\ \A i \in 1..l : after[i] = before[i]
    /\ \A i \in (l + 2)..Len(after) : after[i] = before[i + 1]

\* after is before with cluster g removed from line l
ClusterRemoved(before, after, l, g) ==
    /\ Len(after) = Len(before)
    /\ after[l + 1] = WithoutCluster(before[l + 1], g)
    /\ \A i \in 1..Len(before) : i # l + 1 => after[i] = before[i]

\* what delete(at) makes of the lines before, case by case
DeleteCases(before, after, at) ==
    IF /\ at.line_index < Len(before)
       /\ at.grapheme_index >= grapheme_count(before[at.line_index + 1])
       /\ at.line_index + 1 < Len(before)
    THEN Merged(before, after, at.line_index)
    ELSE IF /\ at.line_index < Len(before)
            /\ at.grapheme_index < grapheme_count(before[at.line_index + 1])
    THEN ClusterRemoved(before, after, at.line_index, at.grapheme_index)
    ELSE after = before

\* C15: Buffer::delete(at) appends the following line to line at.line_index
\* and removes it when at.grapheme_index is at or past the end of the line
\* and a following line exists (the height decreases by 1, the other lines
\* keep content and order); removes exactly the cluster at.grapheme_index,
\* the height unchanged, when the index is within the line; and leaves the
\* lines unchanged otherwise.
DeleteMergesRemovesOrKeeps ==
    (/\ harness.fn = "buffer_edit"
     /\ harness.calls # <<>>
     /\ LastCall.op = "delete")
    => DeleteCases(LastCall.before.lines, lines, LastCall.at)

DeleteMergeWitness ==
    /\ harness.fn = "buffer_edit"
    /\ Len(harness.calls) = 1
    /\ LastCall.op = "delete"
    /\ LastCall.before.lines = <<<<"a", "m">>, <<"b">>>>
    /\ LastCall.at = Location(0, 1)
    /\ lines = <<<<"a", "m", "b">>>>

\* insert_newline(at) was followed by delete(at), at a location of the
\* document insert_newline was called on
SplitThenMerged ==
    /\ harness.fn = "buffer_edit"
    /\ Len(harness.calls) = 2
    /\ harness.calls[1].op = "insert_newline"
    /\ harness.calls[2].op = "delete"
    /\ harness.calls[2].at = harness.calls[1].at
    /\ harness.calls[1].at.line_index < Len(harness.calls[1].before.lines)
    /\ harness.calls[1].at.grapheme_index <=
          grapheme_count(harness.calls[1].before.lines[harness.calls[1].at.line_index + 1])

\* C16: for every document and every location at with at.line_index <
\* height and at.grapheme_index <= the grapheme count of that line,
\* insert_newline(at) followed by delete(at) restores the lines.
InsertNewlineThenDeleteRestores ==
    SplitThenMerged => lines = harness.calls[1].before.lines

InsertNewlineThenDeleteWitness ==
    /\ SplitThenMerged
    /\ harness.calls[1].before.lines = <<<<"a", "b">>, <<"b", "m">>>>
    /\ harness.calls[1].at = Location(0, 1)
    /\ harness.calls[2].before.lines = <<<<"a">>, <<"b">>, <<"b", "m">>>>
    /\ lines = <<<<"a", "b">>, <<"b", "m">>>>

\* C17: for every line and every k <= its grapheme count, after tail =
\* split(k) and append(&tail) the string of the line is the string before
\* the split; for k = the grapheme count the tail is the empty line and the
\* split leaves the line unchanged.
SplitThenAppendRestores ==
    (/\ harness.fn = "split"
     /\ IsSome(harness.tail)
     /\ Unwrap(harness.at) <= grapheme_count(harness.original))
    => /\ harness.appended => harness.line = harness.original
       /\ Unwrap(harness.at) = grapheme_count(harness.original)
             => /\ Unwrap(harness.tail) = <<>>
                /\ harness.line = harness.original

SplitThenAppendWitness ==
    /\ harness.fn = "split"
    /\ harness.appended
    /\ harness.original = <<"a", "m", "b">>
    /\ Unwrap(harness.at) = 1
    /\ Unwrap(harness.tail) = <<"b">>
    /\ harness.line = harness.original

----------------------------------------------------------------------------
(* Saving and the dirty flag *)

\* the last call was a save or a save_as
SaveCalled == harness.call.op \in {"save", "save_as"}

\* C18: in every state the editor reaches, dirty is true exactly when an
\* insert_char, insert_newline or delete has changed the lines since the
\* document was created, loaded or last written by a successful save or
\* save_as; a delete that changes nothing does not set it, and only a
\* successful save or save_as resets it.
DirtyLifecycle ==
    harness.fn = "save" =>
        /\ dirty <=> harness.changed
        /\ (harness.call.op = "delete" /\ lines = harness.call.before.lines)
              => dirty = harness.call.before.dirty
        /\ (harness.call.before.dirty /\ ~dirty) => (SaveCalled /\ harness.call.ok)

DirtyLifecycleWitness ==
    /\ harness.fn = "save"
    /\ harness.call.op = "save_as"
    /\ harness.call.ok
    /\ harness.call.before.dirty
    /\ harness.call.before.file_info = None
    /\ harness.file_info = FileInfo(<<"g">>)
    /\ lines = <<<<"a", "m">>, <<>>>>
    /\ ~dirty

\* C19: when save or save_as fails, the error is returned, the lines, the
\* file identity and the dirty flag are what they were before the call (a
\* failed save_as does not adopt the new file name), and the editor shows
\* the error message.
FailedSaveChangesNothing ==
    (harness.fn = "save" /\ SaveCalled /\ ~harness.call.ok)
    => /\ SB = harness.call.before
       /\ harness.message = "Error writing file!"

FailedSaveWitness ==
    /\ harness.fn = "save"
    /\ harness.call.op = "save_as"
    /\ ~harness.call.ok
    /\ harness.call.wrote
    /\ harness.call.before.dirty
    /\ harness.call.before.file_info = None
    /\ harness.file_info = None
    /\ Len(lines) = 2
    /\ dirty

\* C20, as stated: Buffer::save clears the dirty flag only when the lines
\* were written to the file of the document; on a document without a file,
\* where nothing is written, save leaves the dirty flag unchanged.
SaveClearsDirtyOnlyWhenWritten ==
    (harness.fn = "buffer_save" /\ harness.call.op = "save")
    => /\ (harness.call.before.dirty /\ ~dirty)
             => (harness.call.wrote /\ harness.call.ok)
       /\ harness.call.before.file_info = None => dirty = harness.call.before.dirty

----------------------------------------------------------------------------
(* Line search and cluster alignment *)

\* the clusters g .. g + n - 1 of the line spell the query, n the number of
\* clusters of the query
ClustersSpell(line, query, g) ==
    /\ g + grapheme_count(query) <= grapheme_count(line)
    /\ Concat([i \in 1..grapheme_count(query) |->
                  str_to_fragments(line)[g + i].grapheme]) = query

\* the code point at which cluster g of the line starts, the length of the
\* line for g = the number of clusters
ClusterStart(line, g) ==
    Len(Concat([i \in 1..g |-> str_to_fragments(line)[i].grapheme]))

\* C21: Line::search_forward and Line::search_backward return a grapheme
\* index g only if the clusters g .. g + n - 1 of the line concatenate to the
\* query, so that the occurrence returned starts at the start of cluster g
\* and ends at the end of a cluster; an occurrence of the query that starts
\* or ends inside a cluster is not returned.
LineSearchReturnsAligned ==
    (harness.fn = "line_search" /\ IsSome(harness.ret))
    => /\ ClustersSpell(harness.line, harness.query, Unwrap(harness.ret))
       /\ SubSeq(harness.line,
                 ClusterStart(harness.line, Unwrap(harness.ret)) + 1,
                 ClusterStart(harness.line,
                              Unwrap(harness.ret) + grapheme_count(harness.query)))
            = harness.query

LineSearchAlignedWitness ==
    /\ harness.fn = "line_search"
    /\ harness.line = <<"a", "m", "a", "a", "m">>
    /\ harness.query = <<"a">>
    /\ harness.direction = "Backward"
    /\ harness.from = 3
    /\ harness.ret = Some(1)

----------------------------------------------------------------------------
(* The annotated, visible part of a line *)

\* the occurrences of the query found in the line, as <<byte, grapheme>>
FoundInLine == find_all(harness.line, Unwrap(harness.query), 0, StrLen(harness.line))

\* the annotations of the range of the occurrence
AnnotationsOf(occurrence) ==
    {j \in 1..Len(harness.tagged) :
        /\ harness.tagged[j].start_byte_idx = occurrence[1]
        /\ harness.tagged[j].end_byte_idx =
              occurrence[1] + StrLen(Unwrap(harness.query))}

SpliceEqualsForwardScan ==
    (harness.fn = "shown" /\ harness.called /\ ~IsSome(harness.query))
    => /\ harness.ret.string =
             get_visible_graphemes(harness.line, harness.range[1], harness.range[2])
       /\ harness.range[1] >= harness.range[2] => harness.ret.string = <<>>

SpliceEqualsWitness ==
    /\ harness.fn = "shown"
    /\ harness.called
    /\ ~IsSome(harness.query)
    /\ harness.line = <<"W", "zw", "W">>
    /\ harness.range = <<1, 4>>
    /\ harness.ret.string = <<"...", ".", "...">>

\* the grapheme count of line i of the document, 0 past its last line
CountOfLine(i) == IF i < Len(lines) THEN grapheme_count(lines[i + 1]) ELSE 0

\* the Location the last call found
CalledAt == harness.call.before.text_location

\* C24: Move Right with the cursor at the end of its line puts it at grapheme 0
\* of the next line, the line index at most the number of lines, and otherwise
\* adds one to grapheme_index; Move Left at grapheme 0 of a line after the
\* first puts it at the end of the previous line, at {0,0} leaves the Location
\* as it was, and otherwise takes one from grapheme_index.
HorizontalMovesRollOver ==
    /\ harness.call.command = "Right" =>
         text_location =
            IF CalledAt.grapheme_index = CountOfLine(CalledAt.line_index)
            THEN Location(Min(CalledAt.line_index + 1, Len(lines)), 0)
            ELSE Location(CalledAt.line_index, CalledAt.grapheme_index + 1)
    /\ harness.call.command = "Left" =>
         text_location =
            IF CalledAt.grapheme_index > 0
            THEN Location(CalledAt.line_index, CalledAt.grapheme_index - 1)
            ELSE IF CalledAt.line_index > 0
            THEN Location(CalledAt.line_index - 1,
                          CountOfLine(CalledAt.line_index - 1))
            ELSE CalledAt

\* Right at {0,2} of the lines "ab" and "cde" has given {1,0}
HorizontalMovesWitness ==
    /\ lines = <<<<"a", "b">>, <<"c", "d", "e">>>>
    /\ harness.call.command = "Right"
    /\ CalledAt = Location(0, 2)
    /\ text_location = Location(1, 0)

\* the offset now is the smallest one whose window of extent rows (columns)
\* shows the cursor, and the cursor is on the last of them
SmallestShowing(cursor, extent, now) ==
    /\ now <= cursor
    /\ cursor < now + extent
    /\ cursor = now + extent - 1
    /\ \A o \in 0..(now - 1) : ~(o <= cursor /\ cursor < o + extent)

\* one axis scrolled into view: was and now are the offset before and after
ScrolledIntoView(cursor, was, extent, now, showing) ==
    IF cursor < was
    THEN now = cursor
    ELSE IF cursor >= was + extent
    THEN /\ now = cursor - extent + 1
         /\ showing => SmallestShowing(cursor, extent, now)
    ELSE now = was

\* the last call scrolled the Location into view
ScrollingCall == harness.call.command \in Moves \cup {"Resize"}

\* C25: scrolling into view sets each axis on its own: an offset above the
\* cursor's row (column) becomes that row (column); an offset with the cursor
\* at or past offset + height (width) becomes cursor - height + 1 (cursor -
\* width + 1), which for a window of at least one row (column) is the smallest
\* offset that shows the cursor and puts it on the last visible row (column);
\* otherwise the offset stays.
ScrollIntoViewPerAxis ==
    ScrollingCall =>
        /\ ScrolledIntoView(text_location_to_position(MV).row,
                            harness.call.before.scroll_offset.row,
                            size.height, scroll_offset.row, size.height >= 1)
        /\ ScrolledIntoView(text_location_to_position(MV).col,
                            harness.call.before.scroll_offset.col,
                            size.width, scroll_offset.col, size.width >= 1)

\* a move down has left the window of two rows, which followed by one row
ScrollIntoViewWitness ==
    /\ harness.call.command = "Down"
    /\ size.height = 2
    /\ harness.call.before.scroll_offset.row = 0
    /\ text_location.line_index = 2
    /\ scroll_offset.row = 1

\* C25, as stated: cursor - height + 1 (cursor - width + 1) shows the cursor on
\* the last visible row (column) whatever the height (width)
ScrollIntoViewShowsCursor ==
    ScrollingCall =>
        /\ ScrolledIntoView(text_location_to_position(MV).row,
                            harness.call.before.scroll_offset.row,
                            size.height, scroll_offset.row, TRUE)
        /\ ScrolledIntoView(text_location_to_position(MV).col,
                            harness.call.before.scroll_offset.col,
                            size.width, scroll_offset.col, TRUE)

\* C26: a Move command that leaves the row and the column of scroll_offset as
\* they were leaves needs_redraw as it was.
MoveRedrawsOnlyWhenScrolled ==
    (/\ harness.call.command \in Moves
     /\ scroll_offset = harness.call.before.scroll_offset)
        => harness.needs_redraw = harness.call.before.needs_redraw

\* a move inside the window of a rendered View: the cursor has moved, the
\* offset has not, and no redraw is asked for
MoveRedrawsWitness ==
    /\ harness.call.command \in Moves
    /\ scroll_offset = harness.call.before.scroll_offset
    /\ text_location # harness.call.before.text_location
    /\ ~harness.call.before.needs_redraw
    /\ ~harness.needs_redraw

\* C27: accepting the search, Enter in the search prompt, leaves search mode,
\* search_info and the prompt both None, with text_location, scroll_offset and
\* the document as they were just before.
AcceptKeepsLocation ==
    [][(prompt_type = "Search" /\ last'.cmd = "Accept")
          => /\ search_info' = None
             /\ prompt_type' = "None"
             /\ text_location' = text_location
             /\ scroll_offset' = scroll_offset
             /\ lines' = lines
             /\ dirty' = dirty]_vars

\* a search accepted on a match away from the start of the document
AcceptKeepsWitness ==
    /\ last.cmd = "Accept"
    /\ search_info = None
    /\ prompt_type = "None"
    /\ text_location # Location(0, 0)

\* C28: the empty query matches nothing: Buffer::search_forward and
\* search_backward return None for it from every Location, and View::search,
\* search_next and search_prev with it leave text_location and scroll_offset
\* as they were.
EmptyQueryNeverMatches ==
    harness.call.query = Some(<<>>) =>
        /\ harness.call.op \in {"search_forward", "search_backward"}
              => harness.call.ret = None
        /\ harness.call.op \in {"search", "search_next", "search_prev"}
              => /\ text_location = harness.call.before.text_location
                 /\ scroll_offset = harness.call.before.scroll_offset

\* the empty query searched forward in a document that has text, from a
\* Location in the document
EmptyQueryWitness ==
    /\ harness.call.query = Some(<<>>)
    /\ harness.call.op = "search_forward"
    /\ harness.call.from = Some(Location(0, 0))
    /\ lines = <<<<"a", "a">>>>
    /\ harness.call.ret = None

\* the query of the search mode the editor is in
CurrentQuery == IF IsSome(search_info) THEN Unwrap(search_info).query ELSE None

\* the line that Buffer::search_forward or search_backward, called from the
\* Location from, searches first
FirstSearched(cmd, from) ==
    IF cmd = "SearchPrev"
    THEN Len(lines) - 1
         - (SatSub(SatSub(Len(lines), from.line_index), 1) % Len(lines))
    ELSE from.line_index % Len(lines)

\* the last command searched the lines for a query that is not empty
LineSearched ==
    /\ last.cmd \in {"SearchEdit", "SearchNext", "SearchPrev"}
    /\ IsSome(last.from)
    /\ lines # <<>>
    /\ IsSome(CurrentQuery)
    /\ Unwrap(CurrentQuery) # <<>>

\* C29: every call of Line::search_forward and Line::search_backward that the
\* editor's commands lead to is made with from_grapheme_idx at most the
\* grapheme count of the line searched.
LineSearchedFromWithin ==
    LineSearched =>
        Unwrap(last.from).grapheme_index
            <= grapheme_count(lines[FirstSearched(last.cmd, Unwrap(last.from)) + 1])

\* C30: whenever search_next or search_prev runs, the SearchInfo holds a
\* query: no commands of the editor ask for the next or the previous match in
\* a search mode whose query is None.
SearchNavigationHasQuery ==
    last.cmd \in {"SearchNext", "SearchPrev"} => IsSome(CurrentQuery)

\* the last command was Quit, processed with no prompt
QuitProcessed ==
    /\ harness.command = <<"System", "Quit">>
    /\ harness.before.prompt_type = "None"

\* C31: with no prompt, Quit sets should_quit at once when the document is
\* unmodified; when it is modified, should_quit is set by the third of three
\* Quit commands with none but Resize commands between them, and by no
\* other; every other command processed with no prompt, Resize apart, leaves
\* the count of Quit attempts 0.
QuitProtocol ==
    /\ (QuitProcessed /\ ~harness.before.dirty) => harness.should_quit
    /\ (QuitProcessed /\ harness.before.dirty)
          => (harness.should_quit <=> harness.streak = QUIT_TIMES)
    /\ harness.should_quit => QuitProcessed
    /\ (/\ harness.before.prompt_type = "None"
        /\ harness.command \notin {<<"System", "Quit">>, <<"System", "Init">>}
        /\ ~(harness.command[1] = "System" /\ harness.command[2] = "Resize"))
          => harness.quit_times = 0

\* the third Quit in a row has quit a modified document
QuitProtocolWitness ==
    /\ QuitProcessed
    /\ harness.before.dirty
    /\ harness.streak = QUIT_TIMES
    /\ harness.should_quit

\* C32: in every reachable state quit_times < QUIT_TIMES, so quit_times + 1
\* and QUIT_TIMES - quit_times - 1 stay within a u8.
QuitTimesBelowLimit ==
    /\ harness.quit_times < QUIT_TIMES
    /\ harness.quit_times + 1 = U8(harness.quit_times + 1)
    /\ QUIT_TIMES - harness.quit_times - 1 = U8(QUIT_TIMES - harness.quit_times - 1)

\* two Quit attempts on a modified document are counted
QuitTimesWitness ==
    /\ harness.quit_times = QUIT_TIMES - 1
    /\ dirty
    /\ ~harness.should_quit

\* C33: in every reachable state of the editor the prompt is the Search
\* prompt exactly when the View has a SearchInfo.
SearchPromptHasSearchInfo == (prompt_type = "Search") <=> IsSome(search_info)

\* the Search prompt, entered and typed in, has been dismissed
SearchPromptWitness ==
    /\ harness.fn = "commands"
    /\ harness.command = <<"System", "Dismiss">>
    /\ harness.before.prompt_type = "Search"
    /\ prompt_type = "None"
    /\ search_info = None

\* C34: while the Search or the Save prompt is active no command changes the
\* lines of the document.
PromptKeepsLines == [][prompt_type # "None" => lines' = lines]_vars

\* a character typed in a prompt has gone to the command bar
PromptKeepsLinesWitness ==
    /\ harness.fn = "commands"
    /\ harness.before.prompt_type \in {"Search", "Save"}
    /\ harness.command = <<"Edit", <<"Insert", "a">>>>
    /\ value = <<"a">>
    /\ lines = <<>>

\* the annotations View::draw gives the line of the cursor: the query of the
\* search and the grapheme index of the cursor go to
\* get_annotated_visible_substr
DrawnAtCursor ==
    Tagged(lines[text_location.line_index + 1],
           get_search_query(V),
           Some(text_location.grapheme_index)).annotations

\* C35: after a search that found a match, drawing the line of the cursor
\* tags the occurrence that starts at the cursor's grapheme index as
\* SelectedMatch, overlapping occurrences or not.
SelectedMatchAtCursor ==
    (harness.fn = "drawn" /\ IsSome(harness.found)) =>
        \E j \in 1..Len(DrawnAtCursor) :
           /\ DrawnAtCursor[j].annotation_type = "SelectedMatch"
           /\ DrawnAtCursor[j].start_byte_idx =
                 grapheme_idx_to_byte_idx(lines[text_location.line_index + 1],
                                          text_location.grapheme_index)

\* no two occurrences of the query in a line of the document overlap
OccurrencesApart ==
    \A l \in 1..Len(lines) :
       \A g \in 0..Len(lines[l]), h \in 0..Len(lines[l]) :
          (/\ g < h
           /\ OccursAt(lines[l], value, g)
           /\ OccursAt(lines[l], value, h))
             => g + grapheme_count(value) <= h

\* C36: in a document whose occurrences of the query do not overlap,
\* search_next followed by search_prev brings text_location back to the match
\* it started from, whichever match that is, the wrap-around between the last
\* and the first occurrence included.
NextThenPrevReturns ==
    (harness.fn = "inverse" /\ harness.step = 2 /\ OccurrencesApart)
        => text_location = harness.start

\* the grapheme indices from `from` on at which the clusters of the line
\* spell the query
AlignedFrom(line, query, from) ==
    {g \in from..grapheme_count(line) : ClustersSpell(line, query, g)}

\* C37: Line::search_forward(query, from) returns the smallest grapheme index
\* g >= from at which the clusters of the line equal the clusters of the
\* query, whenever there is one, also when a byte-level occurrence that is
\* not cluster-aligned starts before it and overlaps it.
SearchForwardFindsAligned ==
    (/\ harness.fn = "line_search"
     /\ harness.direction = "Forward"
     /\ harness.query # <<>>
     /\ harness.from <= grapheme_count(harness.line)
     /\ AlignedFrom(harness.line, harness.query, harness.from) # {})
    => /\ IsSome(harness.ret)
       /\ Unwrap(harness.ret) \in AlignedFrom(harness.line, harness.query, harness.from)
       /\ \A g \in AlignedFrom(harness.line, harness.query, harness.from) :
             Unwrap(harness.ret) <= g

\* C38: whenever the screen is refreshed on a terminal of non-zero height and
\* width, the caret handed to the terminal has column <= terminal width and
\* row <= terminal height; with no prompt it is the cursor's rendered
\* position minus the scroll offset, in a prompt it is the command bar's
\* column on the bottom row.
CaretWithinTerminal ==
    (/\ harness.fn = "refresh"
     /\ harness.terminal_size.height # 0
     /\ harness.terminal_size.width # 0)
    => /\ IsSome(harness.caret)
       /\ Unwrap(harness.caret).col <= harness.terminal_size.width
       /\ Unwrap(harness.caret).row <= harness.terminal_size.height
       /\ prompt_type = "None" =>
             /\ Unwrap(harness.caret).row =
                   SatSub(text_location_to_position(V).row, scroll_offset.row)
             /\ Unwrap(harness.caret).col =
                   SatSub(text_location_to_position(V).col, scroll_offset.col)
       /\ prompt_type # "None" =>
             /\ Unwrap(harness.caret).row = harness.terminal_size.height - 1
             /\ Unwrap(harness.caret).col =
                   Min(PromptLen(prompt_type) + grapheme_count(value),
                       harness.terminal_size.width)

\* a refresh with no prompt, the document scrolled both ways
CaretWithinTerminalWitness ==
    /\ harness.fn = "refresh"
    /\ harness.terminal_size.height # 0
    /\ harness.terminal_size.width # 0
    /\ prompt_type = "None"
    /\ scroll_offset.row > 0
    /\ scroll_offset.col > 0
    /\ IsSome(harness.caret)

\* no line of the document holds a line feed or a carriage return
NoLineBreaks(ls) ==
    \A i \in 1..Len(ls) : \A k \in 1..Len(ls[i]) : ls[i][k] \notin {"\n", "\r"}

\* C39: a document whose lines hold neither '\n' nor '\r', saved and then
\* loaded from the file written, comes back as the same sequence of lines;
\* the document of no lines and the documents that end in empty lines too.
SaveLoadRoundTrip ==
    (/\ harness.fn = "file"
     /\ harness.loaded
     /\ NoLineBreaks(Unwrap(harness.saved)))
    => lines = Unwrap(harness.saved)

\* a document of a letter line and two empty lines, saved and loaded
SaveLoadRoundTripWitness ==
    /\ harness.fn = "file"
    /\ harness.loaded
    /\ harness.saved = Some(<<<<"a">>, <<>>, <<>>>>)
    /\ harness.file = Some(<<"a", "\n", "\n", "\n">>)

====
